---- MODULE Spec2Model ----
(***************************************************************************)
(* A model of the VNC server core of propolis-server (lib/vnc.rs): the     *)
(* single-viewer client slot, admission (connect), shutdown (stop) and the *)
(* per-session select loop with its frame pacing; and of the RamFb device  *)
(* behind it (hw/qemu/ramfb.rs): register file, waiters, frame extraction. *)
(*                                                                         *)
(* The state machines of the module:                                       *)
(*   Spec      the server: NConn connect() calls, one stop() call and the  *)
(*             sessions they spawn, interleaved at every lock acquisition  *)
(*             and every await;                                            *)
(*   SessSpec  one session loop (VncServer::run) in detail, with a clock,  *)
(*             the client's message stream and the frame pacing;           *)
(*   RegSpec   the device's register file: fw_cfg calls and a migration;   *)
(*   FutSpec   updated_since futures against writes and imports;           *)
(*   RfbSpec   read_framebuffer, step by step, against fw_cfg writes and   *)
(*             imports;                                                    *)
(*   ReadersSpec  the same with fw_cfg reads, read_spec and export;        *)
(*   LayoutSpec   the register map and the Config struct, byte by byte;    *)
(*   FrameSpec the frame extractor (Frame::read_from) on its arguments;    *)
(*   ValidSpec spec_valid on its arguments;                                *)
(*   PaceSpec  the session loop answering requests, without hangup, with   *)
(*             the device's spec changing under it;                        *)
(*   LockSpec  connect, one session, stop, the guest and a waiter, one     *)
(*             step per mutex acquisition, release and await;              *)
(*   AccSpec   the TCP accept loop (TcpSock::run) and halt();              *)
(*   FbuSpec   one request answered: update_frame on a device config and   *)
(*             the FramebufferUpdate send_fbu builds from it;              *)
(*   MsgSpec   the session loop dispatching key events and requests to     *)
(*             the keyboard and the ClientState, with attach and stop().   *)
(***************************************************************************)
EXTENDS Naturals, Integers, Sequences, FiniteSets, TLC

\* ------------------------------------------------------------------ bounds
\* Number of connect() calls (viewers) the server sees.
NConn == 3
\* Clock horizon of the session machine, in frame intervals.
MaxIntervals == 2
\* Messages the client may have in flight to a session.
MaxInbox == 1
\* FramebufferUpdateRequests a client sends in one session.
MaxReq == 2
\* updated_since futures alive at once on the device.
NFut == 1
\* Readings of the clock (Instant::now) the device machine takes.
MaxClock == 4
\* Largest width and height handed to the frame extractor.
MaxDim == 3
\* fw_cfg writes the guest makes in the lock machine.
MaxGuestWrites == 2
\* Key events the keyboard takes in the message machine.
MaxKeys == 2

\* --------------------------------------------------------------- constants
\* Frame interval (in us) for 10fps
FRAME_US_10FPS == 1000000 \div 10

Conns == 1 .. NConn
\* Option::NoClient in the slot's id and hup fields, and "no task".
NoClient == 0
\* The task running stop(); the connect() calls are the tasks 1..NConn.
StopTask == NConn + 1
\* Option::NoClient of a cached frame (kind "None") and of a result.
NoFrame == [kind |-> "None", when |-> 0]

VARIABLES
    \* ---- VncServer
    state,      \* Mutex<State>: [devices, is_stopped]
    client,     \* Mutex<Client>: [hup, id]; hup names the session whose sender it is
    permit,     \* Notify: a stored notify_one permit
    waiters,    \* Notify: tasks parked in notified(), oldest first
    \* ---- tasks of the server machine
    cpc,        \* connect() call c: where it is
    spc,        \* session c (the task connect spawns): where it is; once run()
                \* has returned, why it did
    hupSent,    \* session c: how often its hangup sender was fired
    stpc,       \* stop(): where it is
    stopSaw,    \* the slot's id when stop() was called
    \* ---- the session machine
    now,        \* the monotonic clock (us)
    lpc,        \* run(): "select" | "send" | "returned"
    lres,       \* run(): why it returned
    close_recv, \* the session's oneshot receiver holds a value
    inbox,      \* bytes the client has sent and the decoder has not consumed
    cstate,     \* ClientState: [last_frame, fbu_req]
    timer,      \* wait_for_next_frame: not polled yet, pending for ever, or asleep until at
    display_ok, \* display.read_framebuffer would return a frame
    nReq,       \* FramebufferUpdateRequests decoded so far
    nSent,      \* FramebufferUpdates written so far
    lastSend,   \* the last update issued: the frame's kind, and when
    gap,        \* the last two updates issued: the earlier one's kind, the time between
    \* ---- RamFb (the device machines)
    config,     \* Inner.config: each field as its bytes in host (little-endian) order
    last_update,\* Inner.last_update
    dclock,     \* the latest instant Instant::now() has returned; each reading under
                \* the lock is later than the one before
    notify_calls, \* Notify: how often notify_waiters() has been called
    dlock,      \* Mutex<Inner>: who holds it
    fut,        \* the UpdatedSince futures: [pc, since, seen]
    rfb,        \* a read_framebuffer call: [pc, validate, bpp, calls, shown]
    rwres,      \* what the last fwcfg_rw call returned, and for which operation
    nWrites,    \* accepted fw_cfg writes so far
    lastWrite,  \* last_update as the latest accepted write set it
    lastImport, \* last_update as the latest import set it
    mig,        \* a migration of the device: [pc], then [pc, offer, exported]
    fin,        \* Frame::read_from, spec_valid: the arguments of one call
    fout,       \* Frame::read_from, spec_valid: what the call returned
    \* ---- the lock machine and the acceptor machine
    lk,         \* each task's position, the owners of Mutex<State> and
                \* Mutex<Client>, and what connect() read and chose
    acc,        \* TcpSock: the accept loop's task, its hangup and halt()
    \* ---- the keyboard (followed in the message machine)
    keys        \* PS2Ctrl: the key events it was handed, oldest first

srvVars == <<state, client, permit, waiters, cpc, spc, hupSent, stpc, stopSaw>>
sessVars == <<now, lpc, lres, close_recv, inbox, cstate, timer, display_ok,
              nReq, nSent, lastSend, gap>>
devVars == <<config, last_update, dclock, notify_calls, dlock, fut, rfb, rwres,
             nWrites, lastWrite, lastImport, mig, fin, fout>>
lkVars == <<lk, acc, keys>>
vars == <<srvVars, sessVars, devVars, lkVars>>

\* ================================================================ helpers
\* Mutant: the message arm written before the hangup arm.
SelectArm_MsgFirst(hupReady, msgReady, frameReady) ==
    IF msgReady THEN "msg"
    ELSE IF hupReady THEN "hangup"
    ELSE IF frameReady THEN "frame"
    ELSE "none"

\* tokio::select! { biased; ... }: the arms are polled in the order written,
\* and the first ready one runs.
SelectArm(hupReady, msgReady, frameReady) ==
    IF hupReady THEN "hangup"
    ELSE IF msgReady THEN "msg"
    ELSE IF frameReady THEN "frame"
    ELSE "none"

\* Mutant: the pass returns the guard without looking at the slot's id.
WaitClientGoneCheck_NoWait(cl) ==
    [client |-> [cl EXCEPT !.hup = NoClient],
     fired  |-> cl.hup,
     gone   |-> TRUE]

\* Mutant: the pass fires the sender through a reference and leaves it in
\* the slot.
WaitClientGoneCheck_NoTake(cl) ==
    [client |-> cl,
     fired  |-> cl.hup,
     gone   |-> cl.id = NoClient]

\* Mutant: the pass treats a slot whose sender is gone as a free slot.
WaitClientGoneCheck_HupOnly(cl) ==
    [client |-> [cl EXCEPT !.hup = NoClient],
     fired  |-> cl.hup,
     gone   |-> cl.hup = NoClient]

\* One pass of wait_client_gone under the client lock: take and fire the
\* hangup sender if there is one, and report whether the slot is free.
WaitClientGoneCheck(cl) ==
    [client |-> [cl EXCEPT !.hup = NoClient],
     fired  |-> cl.hup,
     gone   |-> cl.id = NoClient]

\* replace_client, once wait_client_gone has returned the guard.
Install(cl, new_id) == [cl EXCEPT !.id = new_id, !.hup = new_id]

\* Mutant: hup_client takes the id and leaves the sender in the slot.
ClearSlot_KeepSender(cl) == [cl EXCEPT !.id = NoClient]

\* hup_client's effect on the slot.
ClearSlot(cl) == [cl EXCEPT !.hup = NoClient, !.id = NoClient]

\* Mutant: hup_client without its notify_one.
NotifyOne_Silent(p, w) == [permit |-> p, waiters |-> w, woken |-> NoClient]

\* Notify::notify_one: wake the oldest parked task, or store a permit.
NotifyOne(p, w) ==
    IF w # <<>>
    THEN [permit |-> p, waiters |-> Tail(w), woken |-> Head(w)]
    ELSE [permit |-> TRUE, waiters |-> w, woken |-> NoClient]

\* Mutant: connect() without the stopped check.
ConnectAdmit_NoCheck(st) == "handshake"

\* The stopped check that opens connect().
ConnectAdmit(st) == IF st.is_stopped THEN "ServerStopped" ELSE "handshake"

\* hup.send(()): the fired sender's session has its receiver made ready.
Fire(sent, s) == IF s = NoClient THEN sent ELSE [sent EXCEPT ![s] = @ + 1]

\* A parked task that notify_one woke goes round wait_client_gone's loop again.
WakeConn(pcs, t) == IF t \in Conns THEN [pcs EXCEPT ![t] = "check"] ELSE pcs
WakeStop(pc, t) == IF t = StopTask THEN "check" ELSE pc

\* ============================================================ RamFb device
\* Size of the entry exposed via `fw_cfg` interface
FWCFG_ENTRY_SIZE == 28

\* CFG_REGS with two registers exchanged.
CFG_REGS_Swapped ==
    << [id |-> "addr", len |-> 8], [id |-> "fourcc", len |-> 4],
       [id |-> "flags", len |-> 4], [id |-> "height", len |-> 4],
       [id |-> "width", len |-> 4], [id |-> "stride", len |-> 4] >>

\* The register layout handed to RegMap::create_packed.
CFG_REGS ==
    << [id |-> "addr", len |-> 8], [id |-> "fourcc", len |-> 4],
       [id |-> "flags", len |-> 4], [id |-> "width", len |-> 4],
       [id |-> "height", len |-> 4], [id |-> "stride", len |-> 4] >>

\* create_packed: register i starts where register i-1 ends.
RECURSIVE RegStart(_)
RegStart(i) == IF i = 1 THEN 0 ELSE RegStart(i - 1) + CFG_REGS[i - 1].len

Zeros(n) == [k \in 1 .. n |-> 0]

\* Config::default(): every field zero. A field is kept as its bytes in host
\* memory order (the host is little-endian), so no field is cut to fit.
DefaultConfig ==
    [addr |-> Zeros(8), fourcc |-> Zeros(4), flags |-> Zeros(4),
     width |-> Zeros(4), height |-> Zeros(4), stride |-> Zeros(4)]

\* uN::to_be and uN::from_be on a little-endian host: the bytes are swapped.
SwapBytes(b) == [k \in 1 .. Len(b) |-> b[Len(b) + 1 - k]]

\* `x as usize` of a u32 kept as its little-endian bytes.
RECURSIVE LeValue(_)
LeValue(b) == IF b = <<>> THEN 0 ELSE Head(b) + 256 * LeValue(Tail(b))

\* The Read arm of a register: ro.write_uN(config.field.to_be()) puts these
\* bytes into the operation's buffer.
ReadReg(cfg, id) == SwapBytes(cfg[id])

\* The Write arm without from_be.
WriteReg_NoSwap(cfg, id, bytes) == [cfg EXCEPT ![id] = bytes]

\* The Write arm of a register: config.field = uN::from_be(wo.read_uN()).
WriteReg(cfg, id, bytes) == [cfg EXCEPT ![id] = SwapBytes(bytes)]

\* RegMap::process for a write: the sub-write of register i. Bytes of the
\* register outside [off, off + Len(data)) are first read through the Read arm
\* and written back unchanged.
RegWrite(cfg, i, off, data) ==
    LET r   == CFG_REGS[i]
        cur == ReadReg(cfg, r.id)
        hit(k) == off <= RegStart(i) + k - 1 /\ RegStart(i) + k - 1 < off + Len(data)
        new == [k \in 1 .. r.len |->
                  IF hit(k) THEN data[RegStart(i) + k - off] ELSE cur[k]]
    IN IF \E k \in 1 .. r.len : hit(k) THEN WriteReg(cfg, r.id, new) ELSE cfg

\* RegMap::process for a write: one sub-write per register, in layout order.
RECURSIVE ProcessWrite(_, _, _, _)
ProcessWrite(cfg, i, off, data) ==
    IF i > Len(CFG_REGS) THEN cfg
    ELSE ProcessWrite(RegWrite(cfg, i, off, data), i + 1, off, data)

\* RegMap::process for a read of len bytes at off (inside the entry).
ProcessRead(cfg, off, len) ==
    [k \in 1 .. len |->
       LET p == off + k - 1
           i == CHOOSE j \in DOMAIN CFG_REGS :
                  RegStart(j) <= p /\ p < RegStart(j) + CFG_REGS[j].len
       IN ReadReg(cfg, CFG_REGS[i].id)[p - RegStart(i) + 1]]

\* The bounds check of fwcfg_rw without its check of the end.
WriteRejected_StartOnly(op) ==
    op.kind = "write" /\ op.offset >= FWCFG_ENTRY_SIZE

\* fwcfg_rw: a write that starts or ends outside the entry is refused.
WriteRejected(op) ==
    /\ op.kind = "write"
    /\ \/ op.offset >= FWCFG_ENTRY_SIZE
       \/ op.offset + op.len > FWCFG_ENTRY_SIZE

\* The tail of fwcfg_rw if it acted only on a changed config.
Stamp_IfChanged(old, new, lu, calls, t) ==
    IF old = new THEN [last_update |-> lu, notify_calls |-> calls]
    ELSE [last_update |-> t, notify_calls |-> calls + 1]

\* The tail of fwcfg_rw for a write: last_update = Instant::now() (which
\* returned t), then one notify_waiters().
Stamp(old, new, lu, calls, t) ==
    [last_update |-> t, notify_calls |-> calls + 1]

\* Notify::notify_waiters: every parked future's task is woken.
WakeAll(fs) ==
    [f \in DOMAIN fs |->
       IF fs[f].pc = "pending" THEN [fs[f] EXCEPT !.pc = "poll"] ELSE fs[f]]

\* RamFb::read_spec: FramebufferSpec::from(&config).
ReadSpec(cfg) ==
    [fourcc |-> LeValue(cfg.fourcc), width |-> LeValue(cfg.width),
     height |-> LeValue(cfg.height), stride |-> LeValue(cfg.stride)]

NoOp == [kind |-> "none", offset |-> 0, len |-> 0, data |-> <<>>]
Futs == 1 .. NFut
NoFut == [pc |-> "none", since |-> 0, seen |-> 0]
NoSpec == [width |-> 0, height |-> 0, fourcc |-> 0, stride |-> 0]
NoRfb == [pc |-> "idle", validate |-> "notcalled", bpp |-> 0, calls |-> <<>>,
          shown |-> NoSpec]
NoMig == [pc |-> "none"]
NoArgs == [width |-> 0, height |-> 0, stride |-> 0, bpp |-> 0, readable |-> FALSE]
NoOut == [kind |-> "none", path |-> "none", len |-> 0, stride |-> 0]

\* ---- the frame extractor, on a machine word scaled down: a u32 field holds
\* 6 bits and a usize 12, so that, as with 32 and 64 bits, a product of two
\* fields and a product of a field and the bits per pixel both fit a usize.
U32_MAX == 63
USIZE_MAX == 4095
\* Option::None of a usize.
NoSize == 0 - 1

\* usize::checked_mul
CheckedMul(a, b) == IF a * b > USIZE_MAX THEN NoSize ELSE a * b

\* An unchecked + or * of usize in a release build.
Wrap(x) == x % (USIZE_MAX + 1)

\* Config::stride
ConfigStride(a) ==
    IF a.stride = 0
    THEN (IF CheckedMul(a.width, a.bpp) = NoSize THEN 0
          ELSE CheckedMul(a.width, a.bpp)) \div 8
    ELSE a.stride

\* Config::mapping: the length of the mapping, or NoSize for None.
ConfigMapping(a) ==
    IF a.height = 0 \/ a.width = 0 \/ a.bpp = 0 THEN NoSize
    ELSE IF CheckedMul(a.width, a.bpp) = NoSize THEN NoSize
    ELSE LET linesize == CheckedMul(a.width, a.bpp) \div 8
             stride   == ConfigStride(a)
         IN IF CheckedMul(a.height - 1, stride) = NoSize THEN NoSize
            ELSE IF a.readable
                 THEN Wrap(CheckedMul(a.height - 1, stride) + linesize)
                 ELSE NoSize

\* Frame::read_from: the branch taken (one bulk copy of the mapping, or a
\* copy row by row), the frame's data length and its spec's stride.
FrameReadFrom(a) ==
    IF ConfigMapping(a) = NoSize THEN NoOut
    ELSE IF CheckedMul(a.width, a.bpp) = NoSize THEN NoOut
    ELSE LET fb_linesize == CheckedMul(a.width, a.bpp)
             fb_stride   == ConfigStride(a)
         IN IF fb_stride <= fb_linesize
            THEN [kind |-> "frame", path |-> "contiguous",
                  len |-> ConfigMapping(a), stride |-> a.stride]
            ELSE [kind |-> "frame", path |-> "rows",
                  len |-> Wrap(Wrap(fb_linesize * a.height) * a.bpp) \div 8,
                  stride |-> 0]

\* ---- the server's view of the display (vnc.rs).
\* fourcc::FOURCC_XR24: the bytes 'X','R','2','4', little-endian.
FOURCC_XR24 == 875713112
\* Arbitrary maximum valid resolution
MAX_RES == [width |-> 1920, height |-> 1200]
UNINIT_RES == [width |-> 1024, height |-> 768]
UNINIT_FOURCC == FOURCC_XR24

\* spec_valid: "within acceptable bounds (not zero, and not too big)" and
\* FOURCC_XR24; both ranges are written 0..=MAX.
SpecValid(spec) ==
    /\ spec.width \in 0 .. MAX_RES.width
    /\ spec.height \in 0 .. MAX_RES.height
    /\ spec.fourcc = FOURCC_XR24

\* ---- connect()'s choice of what to advertise.
\* connect(): .filter(spec_valid).map(..).unwrap_or((UNINIT_RES, UNINIT_FOURCC))
\* on what read_spec returned, if there is a device; the dimensions are cast
\* to u16.
ConnectParams(saw) ==
    IF saw.some /\ SpecValid(saw.spec)
    THEN [res |-> [width |-> saw.spec.width % 65536,
                   height |-> saw.spec.height % 65536],
          fourcc |-> saw.spec.fourcc]
    ELSE [res |-> UNINIT_RES, fourcc |-> UNINIT_FOURCC]

\* fourcc::fourcc_to_pixel_format: a pixel format for XR24, None otherwise.
FourccToPixelFormat(fourcc) ==
    IF fourcc = FOURCC_XR24 THEN "xrgb8888" ELSE "None"

\* ---- the tasks of the lock machine and the mutexes they take.
LockTasks == {"connect", "session", "stop", "guest", "waiter"}
\* The connect() call of the lock machine, as the slot's id and among the
\* tasks parked on the Notify (stop() is StopTask there).
LkConn == 1
Free == "free"
NoSaw == [some |-> FALSE,
          spec |-> [fourcc |-> 0, width |-> 0, height |-> 0, stride |-> 0]]
NoAdv == [res |-> [width |-> 0, height |-> 0], fourcc |-> 0]
\* Nothing has run: every task is idle and the mutexes are free.
LkIdle ==
    [pc |-> [t \in LockTasks |-> "idle"],
     state_lock |-> Free,
     client_lock |-> Free,
     saw |-> NoSaw,
     adv |-> NoAdv,
     since |-> 0]

\* The mutexes a task holds.
Held(t) ==
    (IF lk.state_lock = t THEN {"ServerState"} ELSE {})
    \cup (IF lk.client_lock = t THEN {"ClientSlot"} ELSE {})
    \cup (IF dlock = t THEN {"DeviceState"} ELSE {})

\* Where a task is suspended in an await.
AwaitPcs ==
    {"c_handshake", "c_wait", "c_parked", "s_select", "s_send", "st_wait",
     "st_parked", "w_pending"}

\* Mutant: wait_client_gone goes to its await with the guard alive.
GuardAfterPass_Kept(gone, t) == t

\* wait_client_gone: who owns the client mutex after a pass: the guard is
\* returned to the caller when the slot is free and dropped otherwise.
GuardAfterPass(gone, t) == IF gone THEN t ELSE Free

\* A parked task that notify_one woke goes round wait_client_gone's loop again.
WakeTask(pcs, t) ==
    IF t = LkConn THEN [pcs EXCEPT !["connect"] = "c_gone"]
    ELSE IF t = StopTask THEN [pcs EXCEPT !["stop"] = "st_gone"]
    ELSE pcs

\* Where connect() has returned: Ok(()) or a ConnectError.
ConnReturned == {"Ok", "ServerStopped", "InvalidFourCC", "InitError"}

\* The accept loop has not been created.
AccIdle ==
    [pc |-> "none", hup |-> FALSE, halt |-> "idle", sock |-> "none",
     handed |-> 0, errors |-> 0, last |-> "none"]

\* Mutant: the accept arm written before the hangup arm.
AcceptArm_SockFirst(hupReady, sockReady) ==
    IF sockReady THEN "accept"
    ELSE IF hupReady THEN "hangup"
    ELSE "none"

\* TcpSock::run: tokio::select! { biased; hup_recv, listener.accept() }.
AcceptArm(hupReady, sockReady) ==
    IF hupReady THEN "hangup"
    ELSE IF sockReady THEN "accept"
    ELSE "none"

\* RamFb::create: a fresh device, nobody using it.
DevFresh ==
    /\ config = DefaultConfig
    /\ last_update = 0
    /\ dclock = 0
    /\ notify_calls = 0
    /\ dlock = "free"
    /\ fut = [f \in Futs |-> NoFut]
    /\ rfb = NoRfb
    /\ rwres = [prev |-> NoOp, op |-> NoOp, ok |-> TRUE, bytes |-> <<>>]
    /\ nWrites = 0
    /\ lastWrite = 0
    /\ lastImport = 0
    /\ mig = NoMig

\* The device machines at rest: a fresh device, the extractor not called.
DevIdle ==
    /\ DevFresh
    /\ fin = NoArgs
    /\ fout = NoOut

\* ========================================================== server machine
\* Why run() returned: Ok(()) for the first two, Err(e) for the others.
Returned == {"hangup", "disconnect", "decode_err", "write_err"}
\* A session task from its spawn to the end of its hup_client().
Running == {"select", "send"} \cup Returned

SrvInit ==
    /\ state = [devices |-> FALSE, is_stopped |-> FALSE]
    /\ client = [hup |-> NoClient, id |-> NoClient]
    /\ permit = FALSE
    /\ waiters = <<>>
    /\ cpc = [c \in Conns |-> "idle"]
    /\ spc = [c \in Conns |-> "none"]
    /\ hupSent = [c \in Conns |-> 0]
    /\ stpc = "idle"
    /\ stopSaw = NoClient
    /\ lk = LkIdle
    /\ acc = AccIdle
    /\ keys = <<>>

SessIdle ==
    /\ now = 0
    /\ lpc = "none"
    /\ lres = "none"
    /\ close_recv = FALSE
    /\ inbox = <<>>
    /\ cstate = [last_frame |-> NoFrame, fbu_req |-> FALSE]
    /\ timer = [st |-> "fresh", at |-> 0]
    /\ display_ok = FALSE
    /\ nReq = 0
    /\ nSent = 0
    /\ lastSend = [kind |-> "None", at |-> 0]
    /\ gap = [after |-> "None", len |-> 0]

Init == SrvInit /\ SessIdle /\ DevIdle

\* VncServer::attach
Attach ==
    /\ state' = [state EXCEPT !.devices = TRUE]
    /\ UNCHANGED <<client, permit, waiters, cpc, spc, hupSent, stpc, stopSaw>>
    /\ UNCHANGED <<sessVars, devVars, lkVars>>

\* connect(): the block under the state lock.
ConnectStart(c) ==
    /\ cpc[c] = "idle"
    /\ cpc' = [cpc EXCEPT ![c] = ConnectAdmit(state)]
    /\ UNCHANGED <<state, client, permit, waiters, spc, hupSent, stpc, stopSaw>>
    /\ UNCHANGED <<sessVars, devVars, lkVars>>

\* connect(): rfb::server::initialize(...).await?
Handshake(c) ==
    /\ cpc[c] = "handshake"
    /\ \E ok \in BOOLEAN :
         cpc' = [cpc EXCEPT ![c] = IF ok THEN "check" ELSE "InitError"]
    /\ UNCHANGED <<state, client, permit, waiters, spc, hupSent, stpc, stopSaw>>
    /\ UNCHANGED <<sessVars, devVars, lkVars>>

\* replace_client: one pass of wait_client_gone's loop and, when the slot is
\* free, the install under the guard it returned.
ReplaceCheck(c) ==
    /\ cpc[c] = "check"
    /\ LET r == WaitClientGoneCheck(client) IN
         /\ hupSent' = Fire(hupSent, r.fired)
         /\ IF r.gone
            THEN /\ client' = Install(r.client, c)
                 /\ cpc' = [cpc EXCEPT ![c] = "installed"]
            ELSE /\ client' = r.client
                 /\ cpc' = [cpc EXCEPT ![c] = "wait"]
    /\ UNCHANGED <<state, permit, waiters, spc, stpc, stopSaw>>
    /\ UNCHANGED <<sessVars, devVars, lkVars>>

\* wait_client_gone: self.notify.notified().await, first poll.
ConnNotified(c) ==
    /\ cpc[c] = "wait"
    /\ IF permit
       THEN /\ permit' = FALSE
            /\ cpc' = [cpc EXCEPT ![c] = "check"]
            /\ waiters' = waiters
       ELSE /\ permit' = permit
            /\ cpc' = [cpc EXCEPT ![c] = "parked"]
            /\ waiters' = Append(waiters, c)
    /\ UNCHANGED <<state, client, spc, hupSent, stpc, stopSaw>>
    /\ UNCHANGED <<sessVars, devVars, lkVars>>

\* connect(): tokio::spawn of the session task, then Ok(()).
Spawn(c) ==
    /\ cpc[c] = "installed"
    /\ cpc' = [cpc EXCEPT ![c] = "done"]
    /\ spc' = [spc EXCEPT ![c] = "select"]
    /\ UNCHANGED <<state, client, permit, waiters, hupSent, stpc, stopSaw>>
    /\ UNCHANGED <<sessVars, devVars, lkVars>>

\* What the decoder yields when the message arm is ready.
DecodeOutcomes == {"Msg", "EOF", "Err"}

\* The arm of run()'s select that runs, and where it leaves the session.
TurnResult(hupReady, msgReady, frameReady, m) ==
    LET arm == SelectArm(hupReady, msgReady, frameReady) IN
      CASE arm = "hangup" -> "hangup"
        [] arm = "msg" /\ m = "Err" -> "decode_err"
        [] arm = "msg" /\ m = "EOF" -> "disconnect"
        [] arm = "msg" /\ m = "Msg" -> "select"
        [] arm = "frame" -> "send"
        [] arm = "none" -> "none"

\* run(): one turn of the select loop. Whether a message or a frame tick is
\* ready is the client's and the clock's doing.
RunTurn(c) ==
    /\ spc[c] = "select"
    /\ \E msgReady \in BOOLEAN, frameReady \in BOOLEAN, m \in DecodeOutcomes :
         LET r == TurnResult(hupSent[c] > 0, msgReady, frameReady, m) IN
           /\ r # "none"
           /\ spc' = [spc EXCEPT ![c] = r]
    /\ UNCHANGED <<state, client, permit, waiters, cpc, hupSent, stpc, stopSaw>>
    /\ UNCHANGED <<sessVars, devVars, lkVars>>

\* send_fbu: the write and flush complete, or fail.
SendFbu(c) ==
    /\ spc[c] = "send"
    /\ \E ok \in BOOLEAN :
         spc' = [spc EXCEPT ![c] = IF ok THEN "select" ELSE "write_err"]
    /\ UNCHANGED <<state, client, permit, waiters, cpc, hupSent, stpc, stopSaw>>
    /\ UNCHANGED <<sessVars, devVars, lkVars>>

\* The session task after run() returned: this.hup_client().
HupClient(c) ==
    /\ spc[c] \in Returned
    /\ spc' = [spc EXCEPT ![c] = "gone"]
    /\ client' = ClearSlot(client)
    /\ LET n == NotifyOne(permit, waiters) IN
         /\ permit' = n.permit
         /\ waiters' = n.waiters
         /\ cpc' = WakeConn(cpc, n.woken)
         /\ stpc' = WakeStop(stpc, n.woken)
    /\ UNCHANGED <<state, hupSent, stopSaw>>
    /\ UNCHANGED <<sessVars, devVars, lkVars>>

\* stop(): the block under the state lock.
StopCall ==
    /\ stpc = "idle"
    /\ state' = [state EXCEPT !.is_stopped = TRUE, !.devices = FALSE]
    /\ stpc' = "check"
    /\ stopSaw' = client.id
    /\ UNCHANGED <<client, permit, waiters, cpc, spc, hupSent>>
    /\ UNCHANGED <<sessVars, devVars, lkVars>>

\* stop(): one pass of wait_client_gone's loop; stop returns when it does.
StopCheck ==
    /\ stpc = "check"
    /\ LET r == WaitClientGoneCheck(client) IN
         /\ hupSent' = Fire(hupSent, r.fired)
         /\ client' = r.client
         /\ stpc' = IF r.gone THEN "returned" ELSE "wait"
    /\ UNCHANGED <<state, permit, waiters, cpc, spc, stopSaw>>
    /\ UNCHANGED <<sessVars, devVars, lkVars>>

\* stop(): self.notify.notified().await, first poll.
StopNotified ==
    /\ stpc = "wait"
    /\ IF permit
       THEN /\ permit' = FALSE
            /\ stpc' = "check"
            /\ waiters' = waiters
       ELSE /\ permit' = permit
            /\ stpc' = "parked"
            /\ waiters' = Append(waiters, StopTask)
    /\ UNCHANGED <<state, client, cpc, spc, hupSent, stopSaw>>
    /\ UNCHANGED <<sessVars, devVars, lkVars>>

Next ==
    \/ Attach
    \/ \E c \in Conns : ConnectStart(c)
    \/ \E c \in Conns : Handshake(c)
    \/ \E c \in Conns : ReplaceCheck(c)
    \/ \E c \in Conns : ConnNotified(c)
    \/ \E c \in Conns : Spawn(c)
    \/ \E c \in Conns : RunTurn(c)
    \/ \E c \in Conns : SendFbu(c)
    \/ \E c \in Conns : HupClient(c)
    \/ StopCall
    \/ StopCheck
    \/ StopNotified

Spec == Init /\ [][Next]_vars

\* The scheduling the runtime guarantees: a task that can run does run. Every
\* step of connect() after its handshake, of stop() and of a session task's
\* exit is taken; a session whose hangup was fired takes its next turn, and a
\* write in progress completes or fails. What the client does (handshake,
\* messages, disconnect) and when connect() and stop() are called is not
\* forced.
Fairness ==
    /\ \A c \in Conns : WF_vars(ReplaceCheck(c))
    /\ \A c \in Conns : WF_vars(ConnNotified(c))
    /\ \A c \in Conns : WF_vars(Spawn(c))
    /\ \A c \in Conns : WF_vars(hupSent[c] > 0 /\ RunTurn(c))
    /\ \A c \in Conns : WF_vars(SendFbu(c))
    /\ \A c \in Conns : WF_vars(HupClient(c))
    /\ WF_vars(StopCheck)
    /\ WF_vars(StopNotified)

FairSpec == Spec /\ Fairness

\* ========================================================= session machine
\* The clock advances in half frame intervals, up to MaxTime.
TickLen == FRAME_US_10FPS \div 2
MaxTime == MaxIntervals * FRAME_US_10FPS

\* rfb::rfb::ClientMessage, as handle_msg matches it.
ClientMessages ==
    {"KeyEvent", "PointerEvent", "ClientCutText", "FramebufferUpdateRequest",
     "SetPixelFormat", "SetEncodings"}
\* What the decoder can yield: a message, the end of the stream (None), or a
\* decode error.
StreamItems == ClientMessages \cup {"EOF", "BadMsg"}

\* state.devices.and_then(|devs| devs.display.read_framebuffer(..)) is Some.
FrameAvailable == state.devices /\ display_ok

\* handle_msg's effect on the ClientState.
HandleMsg(cs, msg) ==
    IF msg = "FramebufferUpdateRequest" THEN [cs EXCEPT !.fbu_req = TRUE] ELSE cs

\* blank_frame: the filler, 32 bits per pixel, every byte zero.
BlankFrame(t) ==
    [spec |-> [width |-> UNINIT_RES.width, height |-> UNINIT_RES.height,
               stride |-> 0, fourcc |-> UNINIT_FOURCC],
     len |-> UNINIT_RES.width * UNINIT_RES.height * 4,
     zero |-> TRUE,
     when |-> t]

\* send_fbu: the FramebufferUpdate built from a frame: its rectangles. The
\* dimensions are the frame's, cast to u16.
FramebufferUpdateOf(frame) ==
    << [position |-> [x |-> 0, y |-> 0],
        dimensions |-> [width |-> frame.spec.width % 65536,
                        height |-> frame.spec.height % 65536],
        encoding |-> "Raw",
        len |-> frame.len,
        zero |-> frame.zero] >>

\* Mutant: a failed extraction never produces a filler.
UpdateFrame_NoFiller(cs, t, avail) ==
    IF avail
    THEN [cstate  |-> [cs EXCEPT !.last_frame = [kind |-> "Valid", when |-> t]],
          changed |-> TRUE]
    ELSE [cstate |-> cs, changed |-> FALSE]

\* Mutant: a failed extraction keeps whatever frame is cached.
UpdateFrame_KeepCached(cs, t, avail) ==
    IF avail
    THEN [cstate  |-> [cs EXCEPT !.last_frame = [kind |-> "Valid", when |-> t]],
          changed |-> TRUE]
    ELSE IF cs.last_frame.kind # "None"
    THEN [cstate |-> cs, changed |-> FALSE]
    ELSE [cstate  |-> [cs EXCEPT !.last_frame = [kind |-> "Generated", when |-> t]],
          changed |-> TRUE]

\* Mutant: a failed extraction always installs a new filler.
UpdateFrame_AlwaysFill(cs, t, avail) ==
    IF avail
    THEN [cstate  |-> [cs EXCEPT !.last_frame = [kind |-> "Valid", when |-> t]],
          changed |-> TRUE]
    ELSE [cstate  |-> [cs EXCEPT !.last_frame = [kind |-> "Generated", when |-> t]],
          changed |-> TRUE]

\* update_frame at time t: the new ClientState and the bool it returns. A
\* cached frame of kind Generated is BlankFrame(when).
UpdateFrame(cs, t, avail) ==
    IF avail
    THEN [cstate  |-> [cs EXCEPT !.last_frame = [kind |-> "Valid", when |-> t]],
          changed |-> TRUE]
    ELSE IF cs.last_frame.kind = "Generated"
    THEN [cstate |-> cs, changed |-> FALSE]
    ELSE [cstate  |-> [cs EXCEPT !.last_frame = [kind |-> "Generated", when |-> t]],
          changed |-> TRUE]

\* Mutant: no wait for a request: the pacing loop runs whether or not an
\* update was requested.
WaitForNextFrame_Unsolicited(cs, tm, t, avail) ==
    IF tm.st = "sleep" /\ t < tm.at
    THEN [ready |-> FALSE, timer |-> tm, cstate |-> cs]
    ELSE IF cs.last_frame.kind \in {"None", "Generated"}
    THEN LET u == UpdateFrame(cs, t, avail) IN
           IF u.changed
           THEN [ready |-> TRUE, timer |-> tm, cstate |-> u.cstate]
           ELSE [ready |-> FALSE,
                 timer |-> [st |-> "sleep", at |-> t + FRAME_US_10FPS],
                 cstate |-> cs]
    ELSE LET since_last == t - cs.last_frame.when IN
           IF since_last >= FRAME_US_10FPS
           THEN [ready |-> TRUE, timer |-> tm,
                 cstate |-> UpdateFrame(cs, t, avail).cstate]
           ELSE [ready |-> FALSE,
                 timer |-> [st |-> "sleep",
                            at |-> t + (FRAME_US_10FPS - since_last)],
                 cstate |-> cs]

\* Mutant: a Valid frame is refreshed without looking at its age.
WaitForNextFrame_NoPacing(cs, tm, t, avail) ==
    IF tm.st = "never" \/ (tm.st = "sleep" /\ t < tm.at)
    THEN [ready |-> FALSE, timer |-> tm, cstate |-> cs]
    ELSE IF tm.st = "fresh" /\ ~cs.fbu_req
    THEN [ready |-> FALSE, timer |-> [st |-> "never", at |-> 0], cstate |-> cs]
    ELSE IF cs.last_frame.kind \in {"None", "Generated"}
    THEN LET u == UpdateFrame(cs, t, avail) IN
           IF u.changed
           THEN [ready |-> TRUE, timer |-> tm, cstate |-> u.cstate]
           ELSE [ready |-> FALSE,
                 timer |-> [st |-> "sleep", at |-> t + FRAME_US_10FPS],
                 cstate |-> cs]
    ELSE [ready |-> TRUE, timer |-> tm,
          cstate |-> UpdateFrame(cs, t, avail).cstate]

\* Mutant: the wait ends as soon as an update is due, without update_frame.
WaitForNextFrame_SkipUpdate(cs, tm, t, avail) ==
    IF tm.st = "never" \/ (tm.st = "sleep" /\ t < tm.at)
    THEN [ready |-> FALSE, timer |-> tm, cstate |-> cs]
    ELSE IF tm.st = "fresh" /\ ~cs.fbu_req
    THEN [ready |-> FALSE, timer |-> [st |-> "never", at |-> 0], cstate |-> cs]
    ELSE [ready |-> TRUE, timer |-> tm, cstate |-> cs]

\* One poll of the wait_for_next_frame future at time t. tm says where the
\* future is: "fresh" (created by this turn of the select, not polled yet),
\* "never" (awaiting pending()), or "sleep" until tm.at. The result says
\* whether the future completed, and the ClientState and timer it leaves.
WaitForNextFrame(cs, tm, t, avail) ==
    IF tm.st = "never" \/ (tm.st = "sleep" /\ t < tm.at)
    THEN [ready |-> FALSE, timer |-> tm, cstate |-> cs]
    ELSE IF tm.st = "fresh" /\ ~cs.fbu_req
    THEN [ready |-> FALSE, timer |-> [st |-> "never", at |-> 0], cstate |-> cs]
    ELSE IF cs.last_frame.kind \in {"None", "Generated"}
    THEN LET u == UpdateFrame(cs, t, avail) IN
           IF u.changed
           THEN [ready |-> TRUE, timer |-> tm, cstate |-> u.cstate]
           ELSE [ready |-> FALSE,
                 timer |-> [st |-> "sleep", at |-> t + FRAME_US_10FPS],
                 cstate |-> cs]
    ELSE LET since_last == t - cs.last_frame.when IN
           IF since_last >= FRAME_US_10FPS
           THEN [ready |-> TRUE, timer |-> tm,
                 cstate |-> UpdateFrame(cs, t, avail).cstate]
           ELSE [ready |-> FALSE,
                 timer |-> [st |-> "sleep",
                            at |-> t + (FRAME_US_10FPS - since_last)],
                 cstate |-> cs]

\* The session machine starts where connect() has spawned run().
SessInit ==
    /\ SrvInit
    /\ DevIdle
    /\ now = 0
    /\ lpc = "select"
    /\ lres = "none"
    /\ close_recv = FALSE
    /\ inbox = <<>>
    /\ cstate = [last_frame |-> NoFrame, fbu_req |-> FALSE]
    /\ timer = [st |-> "fresh", at |-> 0]
    /\ display_ok = FALSE
    /\ nReq = 0
    /\ nSent = 0
    /\ lastSend = [kind |-> "None", at |-> 0]
    /\ gap = [after |-> "None", len |-> 0]

\* Time passes.
Tick ==
    /\ now + TickLen <= MaxTime
    /\ now' = now + TickLen
    /\ UNCHANGED <<lpc, lres, close_recv, inbox, cstate, timer, display_ok,
                   nReq, nSent, lastSend, gap>>
    /\ UNCHANGED <<srvVars, devVars, lkVars>>

\* The guest reconfigures the display (or its memory comes and goes): what
\* read_framebuffer returns changes.
DeviceChange ==
    /\ display_ok' = ~display_ok
    /\ UNCHANGED <<now, lpc, lres, close_recv, inbox, cstate, timer, nReq,
                   nSent, lastSend, gap>>
    /\ UNCHANGED <<srvVars, devVars, lkVars>>

\* FramebufferUpdateRequests the client has sent so far.
ReqsSent == nReq + Cardinality({i \in DOMAIN inbox : inbox[i] = "FramebufferUpdateRequest"})

\* The client writes a message, closes the stream, or writes garbage.
ClientSend(m) ==
    /\ lpc \in {"select", "send"}
    /\ Len(inbox) < MaxInbox
    /\ \A i \in DOMAIN inbox : inbox[i] # "EOF"
    /\ m = "FramebufferUpdateRequest" => ReqsSent < MaxReq
    /\ inbox' = Append(inbox, m)
    /\ UNCHANGED <<now, lpc, lres, close_recv, cstate, timer, display_ok, nReq,
                   nSent, lastSend, gap>>
    /\ UNCHANGED <<srvVars, devVars, lkVars>>

\* wait_client_gone fires the session's hangup sender.
HupSend ==
    /\ ~close_recv
    /\ close_recv' = TRUE
    /\ UNCHANGED <<now, lpc, lres, inbox, cstate, timer, display_ok, nReq,
                   nSent, lastSend, gap>>
    /\ UNCHANGED <<srvVars, devVars, lkVars>>

\* run(): the select is polled: at the start of a turn, and whenever the
\* hangup, a message or the pacing sleep wakes the task.
RunPoll ==
    /\ lpc = "select"
    /\ \/ timer.st = "fresh"
       \/ close_recv
       \/ inbox # <<>>
       \/ (timer.st = "sleep" /\ now >= timer.at)
    /\ LET w   == WaitForNextFrame(cstate, timer, now, FrameAvailable)
           arm == SelectArm(close_recv, inbox # <<>>, w.ready)
           fresh == [st |-> "fresh", at |-> 0]
       IN
         CASE arm = "hangup" ->
                /\ lpc' = "returned"
                /\ lres' = "hangup"
                /\ UNCHANGED <<inbox, cstate, timer, nReq, lastSend, gap>>
           [] arm = "msg" /\ Head(inbox) = "BadMsg" ->
                /\ lpc' = "returned"
                /\ lres' = "decode_err"
                /\ inbox' = Tail(inbox)
                /\ UNCHANGED <<cstate, timer, nReq, lastSend, gap>>
           [] arm = "msg" /\ Head(inbox) = "EOF" ->
                /\ lpc' = "returned"
                /\ lres' = "disconnect"
                /\ inbox' = Tail(inbox)
                /\ UNCHANGED <<cstate, timer, nReq, lastSend, gap>>
           [] arm = "msg" /\ Head(inbox) \in ClientMessages ->
                /\ cstate' = HandleMsg(cstate, Head(inbox))
                /\ nReq' = IF Head(inbox) = "FramebufferUpdateRequest"
                           THEN nReq + 1 ELSE nReq
                /\ inbox' = Tail(inbox)
                /\ timer' = fresh
                /\ UNCHANGED <<lpc, lres, lastSend, gap>>
           [] arm = "frame" ->
                /\ cstate' = w.cstate
                /\ lpc' = "send"
                /\ timer' = fresh
                /\ lastSend' = [kind |-> w.cstate.last_frame.kind, at |-> now]
                /\ gap' = IF lastSend.kind = "None" THEN gap
                          ELSE [after |-> lastSend.kind, len |-> now - lastSend.at]
                /\ UNCHANGED <<lres, inbox, nReq>>
           [] arm = "none" ->
                /\ timer' = w.timer
                /\ UNCHANGED <<lpc, lres, inbox, cstate, nReq, lastSend, gap>>
    /\ UNCHANGED <<now, close_recv, display_ok, nSent>>
    /\ UNCHANGED <<srvVars, devVars, lkVars>>

\* send_fbu: the write and flush complete and the request is fulfilled, or
\* they fail and run() returns the error.
SendDone ==
    /\ lpc = "send"
    /\ \E ok \in BOOLEAN :
         IF ok
         THEN /\ cstate' = [cstate EXCEPT !.fbu_req = FALSE]
              /\ nSent' = nSent + 1
              /\ lpc' = "select"
              /\ lres' = lres
         ELSE /\ lpc' = "returned"
              /\ lres' = "write_err"
              /\ UNCHANGED <<cstate, nSent>>
    /\ UNCHANGED <<now, close_recv, inbox, timer, display_ok, nReq, lastSend,
                   gap>>
    /\ UNCHANGED <<srvVars, devVars, lkVars>>

SessNext ==
    \/ Attach
    \/ StopCall
    \/ Tick
    \/ DeviceChange
    \/ \E m \in StreamItems : ClientSend(m)
    \/ HupSend
    \/ RunPoll
    \/ SendDone

SessSpec == SessInit /\ [][SessNext]_vars

\* ---- the pacing machine: the session loop of a server that is not stopped
\* and a client that is not hung up; the client sends update requests and key
\* events, or closes.
PaceItems == {"FramebufferUpdateRequest", "KeyEvent", "EOF"}

PaceNext ==
    \/ Attach
    \/ Tick
    \/ DeviceChange
    \/ \E m \in PaceItems : ClientSend(m)
    \/ RunPoll
    \/ SendDone

PaceSpec == SessInit /\ [][PaceNext]_vars

\* The runtime polls a woken session, the clock advances and a write to the
\* client completes (or fails).
PaceFairness ==
    /\ WF_vars(RunPoll)
    /\ WF_vars(SendDone)
    /\ WF_vars(Tick)

FairPaceSpec == PaceSpec /\ PaceFairness

\* ========================================================== device machines
\* Mutant: every operation is taken for a write.
IsWrite_Always(op) == TRUE

\* rwo.is_write()
IsWrite(op) == op.kind = "write"

\* fwcfg_rw under the device lock: the bounds check for writes, the registers
\* the operation covers, and for a write the new last_update and the wake-up.
FwcfgRwLocked(op) ==
    /\ IF WriteRejected(op)
       THEN /\ rwres' = [prev |-> rwres.op, op |-> op, ok |-> FALSE, bytes |-> <<>>]
            /\ UNCHANGED <<config, last_update, dclock, notify_calls, fut,
                           nWrites, lastWrite>>
       ELSE IF IsWrite(op)
       THEN /\ dclock < MaxClock
            /\ LET new == ProcessWrite(config, 1, op.offset, op.data)
                   st  == Stamp(config, new, last_update, notify_calls, dclock + 1)
               IN /\ config' = new
                  /\ last_update' = st.last_update
                  /\ notify_calls' = st.notify_calls
                  /\ fut' = IF st.notify_calls > notify_calls THEN WakeAll(fut)
                            ELSE fut
                  /\ lastWrite' = st.last_update
            /\ dclock' = dclock + 1
            /\ nWrites' = nWrites + 1
            /\ rwres' = [prev |-> rwres.op, op |-> op, ok |-> TRUE, bytes |-> <<>>]
       ELSE /\ rwres' = [prev |-> rwres.op, op |-> op, ok |-> TRUE,
                         bytes |-> ProcessRead(config, op.offset, op.len)]
            /\ UNCHANGED <<config, last_update, dclock, notify_calls, fut,
                           nWrites, lastWrite>>
    /\ UNCHANGED <<rfb, lastImport, mig, fin, fout>>
    /\ UNCHANGED <<srvVars, sessVars>>

\* fwcfg_rw: one call, from taking the lock to dropping it.
FwcfgRwCall(op) ==
    /\ dlock = "free"
    /\ FwcfgRwLocked(op)
    /\ UNCHANGED <<dlock, lkVars>>

\* import without one of the fields.
ImportConfig_NoFlags(cfg, data) ==
    [cfg EXCEPT !.addr = data.addr, !.fourcc = data.fourcc,
                !.width = data.width, !.height = data.height,
                !.stride = data.stride]

\* MigrateSingle::export: the RamFbV1 payload of a config.
ExportPayload(cfg) ==
    [addr |-> cfg.addr, fourcc |-> cfg.fourcc, flags |-> cfg.flags,
     width |-> cfg.width, height |-> cfg.height, stride |-> cfg.stride]

\* MigrateSingle::import: the config after the parsed payload is stored.
ImportConfig(cfg, data) ==
    [cfg EXCEPT !.addr = data.addr, !.fourcc = data.fourcc,
                !.flags = data.flags, !.width = data.width,
                !.height = data.height, !.stride = data.stride]

\* The source device exports its state.
Export ==
    /\ dlock = "free"
    /\ mig.pc = "none"
    /\ mig' = [pc |-> "exported", offer |-> ExportPayload(config),
               exported |-> config]
    /\ UNCHANGED <<config, last_update, dclock, notify_calls, dlock, fut, rfb,
                   rwres, nWrites, lastWrite, lastImport, fin, fout>>
    /\ UNCHANGED <<srvVars, sessVars, lkVars>>

\* The target of the migration, a device fresh from RamFb::create, imports
\* the offer; from here on the device of the machine is the target.
ImportFresh ==
    /\ mig.pc = "exported"
    /\ dclock < MaxClock
    /\ config' = ImportConfig(DefaultConfig, mig.offer)
    /\ last_update' = dclock + 1
    /\ lastImport' = dclock + 1
    /\ dclock' = dclock + 1
    /\ notify_calls' = 0
    /\ dlock' = "free"
    /\ fut' = [f \in Futs |-> NoFut]
    /\ rfb' = NoRfb
    /\ nWrites' = 0
    /\ lastWrite' = 0
    /\ mig' = [mig EXCEPT !.pc = "imported"]
    /\ UNCHANGED <<rwres, fin, fout>>
    /\ UNCHANGED <<srvVars, sessVars, lkVars>>

\* ---- the register machine: fw_cfg calls and a migration, one after another.
\* A 4- or 8-byte big-endian image of a host integer.
RECURSIVE BeBytes(_, _)
BeBytes(v, n) ==
    IF n = 0 THEN <<>> ELSE Append(BeBytes(v \div 256, n - 1), v % 256)

\* Bytes that differ from position to position of the entry.
Pattern(seed, off, len) == [k \in 1 .. len |-> seed + off + k]

\* Values the guest stores: zero, one, 800, 1920 and the fourcc XR24.
FieldVals == {0, 1, 800, 1920, 875713112}
WriteLens == {1, 4, 6, FWCFG_ENTRY_SIZE}
ReadLens == {4, 8, FWCFG_ENTRY_SIZE}

WriteOp(off, data) == [kind |-> "write", offset |-> off, len |-> Len(data), data |-> data]
ReadOp(off, len) == [kind |-> "read", offset |-> off, len |-> len, data |-> <<>>]

\* A whole field written with the big-endian image of a value.
FieldWrites ==
    {WriteOp(RegStart(i), BeBytes(v, CFG_REGS[i].len)) :
        i \in DOMAIN CFG_REGS, v \in FieldVals}

RegOps ==
    {WriteOp(off, Pattern(1, off, len)) :
        off \in 0 .. FWCFG_ENTRY_SIZE + 1, len \in WriteLens}
    \cup FieldWrites
    \cup {op \in {ReadOp(off, len) : off \in 0 .. FWCFG_ENTRY_SIZE - 1,
                                     len \in ReadLens} :
            op.offset + op.len <= FWCFG_ENTRY_SIZE}

\* Configs the guest has programmed before the machine starts.
RegConfigs ==
    {DefaultConfig} \cup
    {ProcessWrite(DefaultConfig, 1, 0, Pattern(seed, 0, FWCFG_ENTRY_SIZE)) :
        seed \in {1, 48}}

\* The device after create() and at most one write of the whole entry.
RegInit ==
    /\ SrvInit
    /\ SessIdle
    /\ config \in RegConfigs
    /\ last_update = (IF config = DefaultConfig THEN 0 ELSE 1)
    /\ dclock = last_update
    /\ notify_calls = last_update
    /\ nWrites = last_update
    /\ lastWrite = last_update
    /\ dlock = "free"
    /\ fut = [f \in Futs |-> NoFut]
    /\ rfb = NoRfb
    /\ rwres = [prev |-> NoOp, op |-> NoOp, ok |-> TRUE, bytes |-> <<>>]
    /\ lastImport = 0
    /\ mig = NoMig
    /\ fin = NoArgs
    /\ fout = NoOut

RegNext ==
    \/ \E op \in RegOps : rwres.prev = NoOp /\ mig.pc = "none" /\ FwcfgRwCall(op)
    \/ rwres.prev = NoOp /\ Export
    \/ ImportFresh

RegSpec == RegInit /\ [][RegNext]_vars

\* ---- the waiter machine: updated_since futures against writes and imports.
\* A Notified that hears only the notify_waiters calls made after its first
\* poll.
NotifiedPoll_FromFirstPoll(seen, calls) == FALSE

\* Notified::poll: ready iff notify_waiters was called since the Notified was
\* created (it counts the calls from its creation, polled or not).
NotifiedPoll(seen, calls) == calls # seen

\* RamFb::updated_since(when): the future is built, its Notified with it.
UpdatedSince(f, when) ==
    /\ fut[f].pc = "none"
    /\ fut' = [fut EXCEPT ![f] = [pc |-> "poll", since |-> when,
                                  seen |-> notify_calls]]
    /\ UNCHANGED <<config, last_update, dclock, notify_calls, dlock, rfb, rwres,
                   nWrites, lastWrite, lastImport, mig, fin, fout>>
    /\ UNCHANGED <<srvVars, sessVars, lkVars>>

\* Mutant: a poll resolves the future without looking at last_update.
PollCheck_AnyPoll(f) ==
    /\ fut[f].pc = "poll"
    /\ dlock = "free"
    /\ fut' = [fut EXCEPT ![f].pc = "ready"]
    /\ UNCHANGED <<config, last_update, dclock, notify_calls, dlock, rfb, rwres,
                   nWrites, lastWrite, lastImport, mig, fin, fout>>
    /\ UNCHANGED <<srvVars, sessVars, lkVars>>

\* UpdatedSince::poll, top of the loop: last_update is compared under the lock.
PollCheck(f) ==
    /\ fut[f].pc = "poll"
    /\ dlock = "free"
    /\ fut' = [fut EXCEPT ![f].pc =
                 IF last_update > fut[f].since THEN "ready" ELSE "arm"]
    /\ UNCHANGED <<config, last_update, dclock, notify_calls, dlock, rfb, rwres,
                   nWrites, lastWrite, lastImport, mig, fin, fout>>
    /\ UNCHANGED <<srvVars, sessVars, lkVars>>

\* UpdatedSince::poll, rest of the loop: the Notified is polled. Ready: a new
\* Notified replaces it and the loop continues; else the poll returns Pending.
PollNotified(f) ==
    /\ fut[f].pc = "arm"
    /\ fut' = [fut EXCEPT ![f] =
                 IF NotifiedPoll(fut[f].seen, notify_calls)
                 THEN [fut[f] EXCEPT !.pc = "poll", !.seen = notify_calls]
                 ELSE [fut[f] EXCEPT !.pc = "pending"]]
    /\ UNCHANGED <<config, last_update, dclock, notify_calls, dlock, rfb, rwres,
                   nWrites, lastWrite, lastImport, mig, fin, fout>>
    /\ UNCHANGED <<srvVars, sessVars, lkVars>>

\* The task that owns the future polls it though nothing woke the future.
SpuriousPoll(f) ==
    /\ fut[f].pc = "pending"
    /\ fut' = [fut EXCEPT ![f].pc = "poll"]
    /\ UNCHANGED <<config, last_update, dclock, notify_calls, dlock, rfb, rwres,
                   nWrites, lastWrite, lastImport, mig, fin, fout>>
    /\ UNCHANGED <<srvVars, sessVars, lkVars>>

\* MigrateSingle::import on the device: the offer parses or not; the six fields
\* and last_update are stored under the lock.
Import(data) ==
    /\ dlock = "free"
    /\ \E parsed \in BOOLEAN :
         IF parsed
         THEN /\ dclock < MaxClock
              /\ config' = ImportConfig(config, data)
              /\ last_update' = dclock + 1
              /\ lastImport' = dclock + 1
              /\ dclock' = dclock + 1
         ELSE UNCHANGED <<config, last_update, lastImport, dclock>>
    /\ UNCHANGED <<notify_calls, dlock, fut, rfb, rwres, nWrites, lastWrite,
                   mig, fin, fout>>
    /\ UNCHANGED <<srvVars, sessVars, lkVars>>

\* What the guest writes in the waiter machine: the width.
FutOps == {WriteOp(16, BeBytes(800, 4))}
\* What a migration source offers it.
FutOffers == {ExportPayload(DefaultConfig)}

FutNext ==
    \/ \E op \in FutOps : FwcfgRwCall(op)
    \/ \E data \in FutOffers : Import(data)
    \/ \E f \in Futs : \E when \in 0 .. dclock : UpdatedSince(f, when)
    \/ \E f \in Futs : PollCheck(f)
    \/ \E f \in Futs : PollNotified(f)
    \/ \E f \in Futs : SpuriousPoll(f)

FutSpec == Init /\ [][FutNext]_vars

\* A task that was woken, or that is in the middle of a poll, goes on.
FutFairness ==
    \A f \in Futs : WF_vars(PollCheck(f)) /\ WF_vars(PollNotified(f))

FairFutSpec == FutSpec /\ FutFairness

\* ---- the reader machine: read_framebuffer, step by step, against fw_cfg
\* writes. The call's result is kept in fout, the arguments it hands to
\* Frame::read_from in fin.
\* let state = self.state.lock().unwrap();
RfbCall ==
    /\ rfb.pc \in {"idle", "returned"}
    /\ dlock = "free"
    /\ dlock' = "rfb"
    /\ rfb' = [NoRfb EXCEPT !.pc = "locked"]
    /\ fin' = NoArgs
    /\ fout' = NoOut
    /\ UNCHANGED <<config, last_update, dclock, notify_calls, fut, rwres,
                   nWrites, lastWrite, lastImport, mig>>
    /\ UNCHANGED <<srvVars, sessVars, lkVars>>

\* let mem = self.acc_mem.access()?;
RfbAccess ==
    /\ rfb.pc = "locked"
    /\ \E granted \in BOOLEAN :
         IF granted
         THEN /\ rfb' = [rfb EXCEPT !.pc = "validate",
                                    !.calls = Append(@, "access")]
              /\ dlock' = dlock
         ELSE /\ rfb' = [rfb EXCEPT !.pc = "returned",
                                    !.calls = Append(@, "access")]
              /\ dlock' = "free"
    /\ UNCHANGED <<config, last_update, dclock, notify_calls, fut, rwres,
                   nWrites, lastWrite, lastImport, mig, fin, fout>>
    /\ UNCHANGED <<srvVars, sessVars, lkVars>>

\* Mutant: the guard is dropped once the spec has been validated.
GuardAfterValidate_Dropped(owner) == "free"

\* read_framebuffer's guard `state` after validate_bpp returned Some: it
\* lives to the end of the function, read_from borrows the config from it.
GuardAfterValidate(owner) == owner

\* let fbspec = FramebufferSpec::from(&state.config);
\* let bpp = validate_bpp(&fbspec)?;  The caller's validator answers None or
\* Some(32).
RfbValidate ==
    /\ rfb.pc = "validate"
    /\ \E bpp \in {0, 32} :
         IF bpp = 0
         THEN /\ rfb' = [rfb EXCEPT !.pc = "returned", !.validate = "none",
                                    !.shown = ReadSpec(config)]
              /\ dlock' = "free"
         ELSE /\ rfb' = [rfb EXCEPT !.pc = "read", !.validate = "some",
                                    !.bpp = bpp, !.shown = ReadSpec(config)]
              /\ dlock' = GuardAfterValidate(dlock)
    /\ UNCHANGED <<config, last_update, dclock, notify_calls, fut, rwres,
                   nWrites, lastWrite, lastImport, mig, fin, fout>>
    /\ UNCHANGED <<srvVars, sessVars, lkVars>>

\* Config::mapping gets as far as mem.readable_region.
MappingAsks(a) ==
    /\ ~(a.height = 0 \/ a.width = 0 \/ a.bpp = 0)
    /\ CheckedMul(a.width, a.bpp) # NoSize
    /\ CheckedMul(a.height - 1, ConfigStride(a)) # NoSize

\* Frame::read_from(&state.config, bpp, &mem), up to the copy: the mapping is
\* asked for; without one the call returns None.
RfbMapping ==
    /\ rfb.pc = "read"
    /\ \E readable \in BOOLEAN :
         LET a == [width |-> LeValue(config.width),
                   height |-> LeValue(config.height),
                   stride |-> LeValue(config.stride),
                   bpp |-> rfb.bpp, readable |-> readable]
         IN /\ fin' = a
            /\ IF FrameReadFrom(a) = NoOut
               THEN /\ rfb' = [rfb EXCEPT !.pc = "returned",
                                 !.calls = IF MappingAsks(a)
                                           THEN Append(@, "readable_region")
                                           ELSE @]
                    /\ dlock' = "free"
               ELSE /\ rfb' = [rfb EXCEPT !.pc = "copy",
                                 !.calls = Append(@, "readable_region")]
                    /\ dlock' = dlock
    /\ UNCHANGED <<config, last_update, dclock, notify_calls, fut, rwres,
                   nWrites, lastWrite, lastImport, mig, fout>>
    /\ UNCHANGED <<srvVars, sessVars, lkVars>>

\* The pixels are copied, the frame is returned, and with the return the
\* guards of the call (memory, then state) are dropped.
RfbCopy ==
    /\ rfb.pc = "copy"
    /\ fout' = FrameReadFrom(fin)
    /\ rfb' = [rfb EXCEPT !.pc = "returned"]
    /\ dlock' = "free"
    /\ UNCHANGED <<config, last_update, dclock, notify_calls, fut, rwres,
                   nWrites, lastWrite, lastImport, mig, fin>>
    /\ UNCHANGED <<srvVars, sessVars, lkVars>>

\* What the guest writes in the reader machine: width and height in one
\* write, or the stride.
RfbOps == {WriteOp(16, BeBytes(2, 4) \o BeBytes(2, 4)), WriteOp(24, BeBytes(12, 4))}

RfbNext ==
    \/ \E op \in RfbOps : FwcfgRwCall(op)
    \/ \E data \in FutOffers : Import(data)
    \/ RfbCall
    \/ RfbAccess
    \/ RfbValidate
    \/ RfbMapping
    \/ RfbCopy

RfbSpec == Init /\ [][RfbNext]_vars

\* ---- the layout machine: the register map and the Config struct, one byte
\* of the entry at a time, for each alignment a u64 has on a target.
\* struct Config: the sizes of its fields, in the order they are declared.
ConfigFieldSizes == <<8, 4, 4, 4, 4, 4>>

RECURSIVE SeqSum(_)
SeqSum(s) == IF s = <<>> THEN 0 ELSE Head(s) + SeqSum(Tail(s))

\* size_of::<Config>(). The struct has the default representation (no
\* #[repr] attribute): its alignment is that of its u64, its fields need no
\* padding between them, and its size is a multiple of its alignment.
SizeOfConfig(u64_align) ==
    ((SeqSum(ConfigFieldSizes) + u64_align - 1) \div u64_align) * u64_align

\* The registers of CFG_REGS that hold byte p of the entry.
RegsCovering(p) ==
    {i \in DOMAIN CFG_REGS :
        RegStart(i) <= p /\ p < RegStart(i) + CFG_REGS[i].len}

\* A byte offset, inside the entry or just past it, and the alignment of u64
\* of the target: 8 on x86_64, 4 on 32-bit x86.
LayoutInit ==
    /\ SrvInit
    /\ SessIdle
    /\ DevFresh
    /\ fin \in [offset : 0 .. FWCFG_ENTRY_SIZE + 3, u64_align : {4, 8}]
    /\ fout = NoOut

\* The register map is asked for the byte, and size_of for the struct.
LayoutApply ==
    /\ fout = NoOut
    /\ fout' = [kind |-> "layout", regs |-> RegsCovering(fin.offset),
                size |-> SizeOfConfig(fin.u64_align)]
    /\ UNCHANGED <<config, last_update, dclock, notify_calls, dlock, fut, rfb,
                   rwres, nWrites, lastWrite, lastImport, mig, fin>>
    /\ UNCHANGED <<srvVars, sessVars, lkVars>>

LayoutNext == LayoutApply

LayoutSpec == LayoutInit /\ [][LayoutNext]_vars

\* ---- the readers machine: the reader machine with the device's other
\* read-only operations: fw_cfg reads, read_spec and export.
\* What the guest reads back: width and height.
ReaderOps == {ReadOp(16, 8)}

\* RamFb::read_spec, one call from lock to return; lk.saw is what its caller
\* (connect) got.
ReadSpecCall ==
    /\ dlock = "free"
    /\ lk' = [lk EXCEPT !.saw = [some |-> TRUE, spec |-> ReadSpec(config)]]
    /\ UNCHANGED <<srvVars, sessVars, devVars, acc, keys>>

ReadersNext ==
    \/ \E op \in RfbOps \cup ReaderOps : FwcfgRwCall(op)
    \/ RfbCall
    \/ RfbAccess
    \/ RfbValidate
    \/ RfbMapping
    \/ RfbCopy
    \/ ReadSpecCall
    \/ Export

ReadersSpec == Init /\ [][ReadersNext]_vars

\* ---- the extractor machine: Frame::read_from applied to one set of arguments.
\* Widths and heights are the small ones and the largest a u32 holds; the
\* stride is any u32.
FrameArgs ==
    [width : (0 .. MaxDim) \cup {U32_MAX}, height : (0 .. MaxDim) \cup {U32_MAX},
     stride : 0 .. U32_MAX, bpp : {32}, readable : BOOLEAN]

FrameInit ==
    /\ SrvInit
    /\ SessIdle
    /\ DevFresh
    /\ fin \in FrameArgs
    /\ fout = NoOut

\* Frame::read_from is called.
ReadFrom ==
    /\ fout = NoOut
    /\ fout' = FrameReadFrom(fin)
    /\ UNCHANGED <<config, last_update, dclock, notify_calls, dlock, fut, rfb,
                   rwres, nWrites, lastWrite, lastImport, mig, fin>>
    /\ UNCHANGED <<srvVars, sessVars, lkVars>>

FrameNext == ReadFrom

FrameSpec == FrameInit /\ [][FrameNext]_vars

\* ---- the validity machine: spec_valid applied to one FramebufferSpec.
\* Widths, heights and pixel formats a device can describe, on both sides of
\* every limit spec_valid tests.
SpecArgs ==
    [width : {0, 1, 2, MAX_RES.width - 1, MAX_RES.width, MAX_RES.width + 1},
     height : {0, 1, MAX_RES.height - 1, MAX_RES.height, MAX_RES.height + 1},
     stride : {0, 4096},
     fourcc : {FOURCC_XR24, 305419896, 0}]

ValidInit ==
    /\ SrvInit
    /\ SessIdle
    /\ DevFresh
    /\ fin \in SpecArgs
    /\ fout = NoOut

\* spec_valid is called.
Validate ==
    /\ fout = NoOut
    /\ fout' = [NoOut EXCEPT !.kind = IF SpecValid(fin) THEN "valid"
                                         ELSE "invalid"]
    /\ UNCHANGED <<config, last_update, dclock, notify_calls, dlock, fut, rfb,
                   rwres, nWrites, lastWrite, lastImport, mig, fin>>
    /\ UNCHANGED <<srvVars, sessVars, lkVars>>

ValidNext == Validate

ValidSpec == ValidInit /\ [][ValidNext]_vars

\* ---- the lock machine: one connect(), the session it spawns, one stop(), the
\* guest's fw_cfg calls and one updated_since future, each a task that moves
\* from one lock acquisition, lock release or await to the next.
lkSrvRest == <<cpc, spc, hupSent, stpc, stopSaw>>
devRest == <<config, last_update, dclock, notify_calls, fut, rfb, rwres, nWrites,
             lastWrite, lastImport, mig, fin, fout>>

\* What the guest does in the lock machine: it sets the pixel format, to XR24
\* or to a code nobody renders.
LkOps == {WriteOp(8, BeBytes(FOURCC_XR24, 4)), WriteOp(8, BeBytes(305419896, 4))}

\* attach(), under the state lock.
LkAttach ==
    /\ lk.state_lock = Free
    /\ ~state.devices
    /\ Attach

\* connect() is called, for the first time or again:
\* let state = self.state.lock().unwrap();
LkConnLock ==
    /\ lk.pc["connect"] \in {"idle"} \cup ConnReturned
    /\ lk.state_lock = Free
    /\ lk' = [lk EXCEPT !.pc["connect"] = "c_state", !.state_lock = "connect",
                        !.saw = NoSaw, !.adv = NoAdv]
    /\ UNCHANGED <<srvVars, sessVars, devVars, acc, keys>>

\* connect(), under the state lock: the stopped check; then, with devices,
\* devs.display.read_spec() takes the device lock; without, the block ends
\* with the defaults.
LkConnState ==
    /\ lk.pc["connect"] = "c_state"
    /\ IF ConnectAdmit(state) = "ServerStopped"
       THEN /\ lk' = [lk EXCEPT !.pc["connect"] = "ServerStopped",
                                !.state_lock = Free]
            /\ dlock' = dlock
       ELSE IF state.devices
       THEN /\ dlock = Free
            /\ dlock' = "connect"
            /\ lk' = [lk EXCEPT !.pc["connect"] = "c_read_spec"]
       ELSE /\ lk' = [lk EXCEPT !.pc["connect"] = "c_translate",
                                !.state_lock = Free,
                                !.saw = NoSaw,
                                !.adv = ConnectParams(NoSaw)]
            /\ dlock' = dlock
    /\ UNCHANGED <<srvVars, sessVars, devRest, acc, keys>>

\* read_spec returns (its guard dropped), the spec is filtered, and the block
\* under the state lock ends.
LkConnReadSpec ==
    /\ lk.pc["connect"] = "c_read_spec"
    /\ LET saw == [some |-> TRUE, spec |-> ReadSpec(config)] IN
         lk' = [lk EXCEPT !.pc["connect"] = "c_translate",
                          !.state_lock = Free,
                          !.saw = saw,
                          !.adv = ConnectParams(saw)]
    /\ dlock' = Free
    /\ UNCHANGED <<srvVars, sessVars, devRest, acc, keys>>

\* fourcc_to_pixel_format(fourcc).ok_or(ConnectError::InvalidFourCC(fourcc))?
LkConnTranslate ==
    /\ lk.pc["connect"] = "c_translate"
    /\ lk' = [lk EXCEPT !.pc["connect"] =
                IF FourccToPixelFormat(lk.adv.fourcc) = "None"
                THEN "InvalidFourCC" ELSE "c_handshake"]
    /\ UNCHANGED <<srvVars, sessVars, devVars, acc, keys>>

\* rfb::server::initialize(...).await?
LkConnHandshake ==
    /\ lk.pc["connect"] = "c_handshake"
    /\ \E ok \in BOOLEAN :
         lk' = [lk EXCEPT !.pc["connect"] = IF ok THEN "c_gone" ELSE "InitError"]
    /\ UNCHANGED <<srvVars, sessVars, devVars, acc, keys>>

\* wait_client_gone (for replace_client): self.client.lock().unwrap()
LkConnPassLock ==
    /\ lk.pc["connect"] = "c_gone"
    /\ lk.client_lock = Free
    /\ lk' = [lk EXCEPT !.pc["connect"] = "c_client", !.client_lock = "connect"]
    /\ UNCHANGED <<srvVars, sessVars, devVars, acc, keys>>

\* wait_client_gone: the pass under the guard; it ends with the guard
\* returned, or dropped ahead of notified().await. (A sender it fires makes
\* the session's run() return: LkSessEnd.)
LkConnPass ==
    /\ lk.pc["connect"] = "c_client"
    /\ LET r == WaitClientGoneCheck(client) IN
         /\ client' = r.client
         /\ lk' = [lk EXCEPT !.pc["connect"] =
                               IF r.gone THEN "c_install" ELSE "c_wait",
                             !.client_lock = GuardAfterPass(r.gone, "connect")]
    /\ UNCHANGED <<state, permit, waiters, lkSrvRest>>
    /\ UNCHANGED <<sessVars, devVars, acc, keys>>

\* replace_client: the slot is filled and the guard dropped at its return.
LkConnInstall ==
    /\ lk.pc["connect"] = "c_install"
    /\ client' = Install(client, LkConn)
    /\ lk' = [lk EXCEPT !.pc["connect"] = "c_spawn", !.client_lock = Free]
    /\ UNCHANGED <<state, permit, waiters, lkSrvRest>>
    /\ UNCHANGED <<sessVars, devVars, acc, keys>>

\* wait_client_gone: self.notify.notified().await, first poll.
LkConnNotified ==
    /\ lk.pc["connect"] = "c_wait"
    /\ IF permit
       THEN /\ permit' = FALSE
            /\ waiters' = waiters
            /\ lk' = [lk EXCEPT !.pc["connect"] = "c_gone"]
       ELSE /\ permit' = permit
            /\ waiters' = Append(waiters, LkConn)
            /\ lk' = [lk EXCEPT !.pc["connect"] = "c_parked"]
    /\ UNCHANGED <<state, client, lkSrvRest>>
    /\ UNCHANGED <<sessVars, devVars, acc, keys>>

\* connect(): tokio::spawn of the session task, then Ok(()).
LkConnSpawn ==
    /\ lk.pc["connect"] = "c_spawn"
    /\ lk' = [lk EXCEPT !.pc["connect"] = "Ok", !.pc["session"] = "s_select"]
    /\ UNCHANGED <<srvVars, sessVars, devVars, acc, keys>>

\* handle_msg, KeyEvent: let state = self.state.lock().unwrap();
LkSessKeyLock ==
    /\ lk.pc["session"] = "s_select"
    /\ lk.state_lock = Free
    /\ lk' = [lk EXCEPT !.pc["session"] = "s_key", !.state_lock = "session"]
    /\ UNCHANGED <<srvVars, sessVars, devVars, acc, keys>>

\* handle_msg, KeyEvent: the key goes to the keyboard, if there is one, and
\* the arm ends.
LkSessKey ==
    /\ lk.pc["session"] = "s_key"
    /\ lk' = [lk EXCEPT !.pc["session"] = "s_select", !.state_lock = Free]
    /\ UNCHANGED <<srvVars, sessVars, devVars, acc, keys>>

\* update_frame: let state = self.state.lock().unwrap();
LkSessUpdateLock ==
    /\ lk.pc["session"] = "s_select"
    /\ lk.state_lock = Free
    /\ lk' = [lk EXCEPT !.pc["session"] = "s_update", !.state_lock = "session"]
    /\ UNCHANGED <<srvVars, sessVars, devVars, acc, keys>>

\* update_frame, under the state lock: with devices, read_framebuffer takes
\* the device lock; without, the cached frame is settled and the function
\* returns: to send_fbu, or to the pacing sleep.
LkSessUpdate ==
    /\ lk.pc["session"] = "s_update"
    /\ IF state.devices
       THEN /\ dlock = Free
            /\ dlock' = "session"
            /\ lk' = [lk EXCEPT !.pc["session"] = "s_rfb"]
       ELSE /\ dlock' = dlock
            /\ \E changed \in BOOLEAN :
                 lk' = [lk EXCEPT !.pc["session"] =
                                    IF changed THEN "s_send" ELSE "s_select",
                                  !.state_lock = Free]
    /\ UNCHANGED <<srvVars, sessVars, devRest, acc, keys>>

\* read_framebuffer returns (its guard dropped), the cached frame is settled
\* and update_frame returns.
LkSessRead ==
    /\ lk.pc["session"] = "s_rfb"
    /\ dlock' = Free
    /\ \E changed \in BOOLEAN :
         lk' = [lk EXCEPT !.pc["session"] =
                            IF changed THEN "s_send" ELSE "s_select",
                          !.state_lock = Free]
    /\ UNCHANGED <<srvVars, sessVars, devRest, acc, keys>>

\* send_fbu: the write and flush complete, or fail.
LkSessSend ==
    /\ lk.pc["session"] = "s_send"
    /\ \E ok \in BOOLEAN :
         lk' = [lk EXCEPT !.pc["session"] = IF ok THEN "s_select" ELSE "s_exit"]
    /\ UNCHANGED <<srvVars, sessVars, devVars, acc, keys>>

\* run() returns: hangup, end of stream or decode error.
LkSessEnd ==
    /\ lk.pc["session"] = "s_select"
    /\ lk' = [lk EXCEPT !.pc["session"] = "s_exit"]
    /\ UNCHANGED <<srvVars, sessVars, devVars, acc, keys>>

\* hup_client: let mut client = self.client.lock().unwrap();
LkSessHupLock ==
    /\ lk.pc["session"] = "s_exit"
    /\ lk.client_lock = Free
    /\ lk' = [lk EXCEPT !.pc["session"] = "s_hup", !.client_lock = "session"]
    /\ UNCHANGED <<srvVars, sessVars, devVars, acc, keys>>

\* hup_client: the slot is cleared, notify_one is called, the guard is dropped.
LkSessHup ==
    /\ lk.pc["session"] = "s_hup"
    /\ client' = ClearSlot(client)
    /\ LET n == NotifyOne(permit, waiters) IN
         /\ permit' = n.permit
         /\ waiters' = n.waiters
         /\ lk' = [lk EXCEPT !.pc = WakeTask([lk.pc EXCEPT !["session"] = "gone"],
                                             n.woken),
                             !.client_lock = Free]
    /\ UNCHANGED <<state, lkSrvRest>>
    /\ UNCHANGED <<sessVars, devVars, acc, keys>>

\* stop(): let mut state = self.state.lock().unwrap();
LkStopLock ==
    /\ lk.pc["stop"] = "idle"
    /\ lk.state_lock = Free
    /\ lk' = [lk EXCEPT !.pc["stop"] = "st_state", !.state_lock = "stop"]
    /\ UNCHANGED <<srvVars, sessVars, devVars, acc, keys>>

\* stop(): is_stopped is set, the devices are dropped, the guard is dropped.
LkStopSet ==
    /\ lk.pc["stop"] = "st_state"
    /\ state' = [state EXCEPT !.is_stopped = TRUE, !.devices = FALSE]
    /\ lk' = [lk EXCEPT !.pc["stop"] = "st_gone", !.state_lock = Free]
    /\ UNCHANGED <<client, permit, waiters, lkSrvRest>>
    /\ UNCHANGED <<sessVars, devVars, acc, keys>>

\* wait_client_gone (for stop): self.client.lock().unwrap()
LkStopPassLock ==
    /\ lk.pc["stop"] = "st_gone"
    /\ lk.client_lock = Free
    /\ lk' = [lk EXCEPT !.pc["stop"] = "st_client", !.client_lock = "stop"]
    /\ UNCHANGED <<srvVars, sessVars, devVars, acc, keys>>

\* wait_client_gone: the pass under the guard, as in connect().
LkStopPass ==
    /\ lk.pc["stop"] = "st_client"
    /\ LET r == WaitClientGoneCheck(client) IN
         /\ client' = r.client
         /\ lk' = [lk EXCEPT !.pc["stop"] =
                               IF r.gone THEN "st_return" ELSE "st_wait",
                             !.client_lock = GuardAfterPass(r.gone, "stop")]
    /\ UNCHANGED <<state, permit, waiters, lkSrvRest>>
    /\ UNCHANGED <<sessVars, devVars, acc, keys>>

\* stop() returns and drops the guard it was handed.
LkStopReturn ==
    /\ lk.pc["stop"] = "st_return"
    /\ lk' = [lk EXCEPT !.pc["stop"] = "returned", !.client_lock = Free]
    /\ UNCHANGED <<srvVars, sessVars, devVars, acc, keys>>

\* wait_client_gone: self.notify.notified().await, first poll.
LkStopNotified ==
    /\ lk.pc["stop"] = "st_wait"
    /\ IF permit
       THEN /\ permit' = FALSE
            /\ waiters' = waiters
            /\ lk' = [lk EXCEPT !.pc["stop"] = "st_gone"]
       ELSE /\ permit' = permit
            /\ waiters' = Append(waiters, StopTask)
            /\ lk' = [lk EXCEPT !.pc["stop"] = "st_parked"]
    /\ UNCHANGED <<state, client, lkSrvRest>>
    /\ UNCHANGED <<sessVars, devVars, acc, keys>>

\* fwcfg_rw: let mut state = self.state.lock().unwrap();
LkGuestLock ==
    /\ lk.pc["guest"] = "idle"
    /\ nWrites < MaxGuestWrites
    /\ dlock = Free
    /\ dlock' = "guest"
    /\ lk' = [lk EXCEPT !.pc["guest"] = "g_locked"]
    /\ UNCHANGED <<srvVars, sessVars, devRest, acc, keys>>

\* fwcfg_rw: the operation under the lock; a write that is accepted wakes the
\* waiting future; the guard is dropped.
LkGuestRw(op) ==
    /\ lk.pc["guest"] = "g_locked"
    /\ FwcfgRwLocked(op)
    /\ dlock' = Free
    /\ lk' = [lk EXCEPT !.pc["guest"] = "idle",
                        !.pc["waiter"] =
                           IF /\ @ = "w_pending"
                              /\ op.kind = "write" /\ ~WriteRejected(op)
                           THEN "w_poll" ELSE @]
    /\ UNCHANGED <<acc, keys>>

\* updated_since(last_update): the future is built; no lock is taken.
LkWaiterNew ==
    /\ lk.pc["waiter"] = "idle"
    /\ lk' = [lk EXCEPT !.pc["waiter"] = "w_poll", !.since = last_update]
    /\ UNCHANGED <<srvVars, sessVars, devVars, acc, keys>>

\* UpdatedSince::poll: this.ramfb.state.lock().unwrap()
LkWaiterLock ==
    /\ lk.pc["waiter"] = "w_poll"
    /\ dlock = Free
    /\ dlock' = "waiter"
    /\ lk' = [lk EXCEPT !.pc["waiter"] = "w_locked"]
    /\ UNCHANGED <<srvVars, sessVars, devRest, acc, keys>>

\* UpdatedSince::poll: last_update is compared and the guard dropped; then
\* Ready, or Pending on the Notified.
LkWaiterCheck ==
    /\ lk.pc["waiter"] = "w_locked"
    /\ dlock' = Free
    /\ lk' = [lk EXCEPT !.pc["waiter"] =
                IF last_update > lk.since THEN "w_ready" ELSE "w_pending"]
    /\ UNCHANGED <<srvVars, sessVars, devRest, acc, keys>>

LockNext ==
    \/ LkAttach
    \/ LkConnLock
    \/ LkConnState
    \/ LkConnReadSpec
    \/ LkConnTranslate
    \/ LkConnHandshake
    \/ LkConnPassLock
    \/ LkConnPass
    \/ LkConnInstall
    \/ LkConnNotified
    \/ LkConnSpawn
    \/ LkSessKeyLock
    \/ LkSessKey
    \/ LkSessUpdateLock
    \/ LkSessUpdate
    \/ LkSessRead
    \/ LkSessSend
    \/ LkSessEnd
    \/ LkSessHupLock
    \/ LkSessHup
    \/ LkStopLock
    \/ LkStopSet
    \/ LkStopPassLock
    \/ LkStopPass
    \/ LkStopReturn
    \/ LkStopNotified
    \/ LkGuestLock
    \/ \E op \in LkOps : LkGuestRw(op)
    \/ LkWaiterNew
    \/ LkWaiterLock
    \/ LkWaiterCheck

LockSpec == Init /\ [][LockNext]_vars

\* ---- the acceptor machine: TcpSock::new, the accept loop it spawns, what the
\* listener yields, and halt(). At most NConn connections are accepted and at
\* most NConn accepts fail.
\* TcpSock::new: the listener is bound and the loop's task spawned, or the
\* bind fails and there is no TcpSock.
AccNew ==
    /\ acc.pc = "none"
    /\ \E bound \in BOOLEAN :
         acc' = [acc EXCEPT !.pc = IF bound THEN "select" ELSE "bind_err"]
    /\ UNCHANGED <<srvVars, sessVars, devVars, lk, keys>>

\* The listener has something for accept(): a connection, or an error.
AccArrive(r) ==
    /\ acc.pc \in {"select", "connect"}
    /\ acc.sock = "none"
    /\ r = "ok" => acc.handed < NConn
    /\ r = "err" => acc.errors < NConn
    /\ acc' = [acc EXCEPT !.sock = r]
    /\ UNCHANGED <<srvVars, sessVars, devVars, lk, keys>>

\* TcpSock::run: the select is polled and an arm runs: the hangup arm returns;
\* the accept arm hands the socket to vnc.connect, or logs the error and goes
\* round the loop.
AccTurn ==
    /\ acc.pc = "select"
    /\ LET arm == AcceptArm(acc.hup, acc.sock # "none") IN
         CASE arm = "hangup" ->
                acc' = [acc EXCEPT !.pc = "returned"]
           [] arm = "accept" /\ acc.sock = "ok" ->
                acc' = [acc EXCEPT !.pc = "connect", !.sock = "none",
                                   !.handed = @ + 1]
           [] arm = "accept" /\ acc.sock = "err" ->
                acc' = [acc EXCEPT !.sock = "none", !.errors = @ + 1]
           [] arm = "none" -> FALSE
    /\ UNCHANGED <<srvVars, sessVars, devVars, lk, keys>>

\* vnc.connect(..).await returns; an error is logged; the loop goes round.
AccConnectReturn(res) ==
    /\ acc.pc = "connect"
    /\ acc' = [acc EXCEPT !.pc = "select", !.last = res]
    /\ UNCHANGED <<srvVars, sessVars, devVars, lk, keys>>

\* halt(): let _ = hup_send.send(());
AccHalt ==
    /\ acc.halt = "idle"
    /\ acc.pc \notin {"none", "bind_err"}
    /\ acc' = [acc EXCEPT !.hup = TRUE, !.halt = "joining"]
    /\ UNCHANGED <<srvVars, sessVars, devVars, lk, keys>>

\* halt(): let _ = join_hdl.await; completes when the task has finished.
AccJoin ==
    /\ acc.halt = "joining"
    /\ acc.pc = "returned"
    /\ acc' = [acc EXCEPT !.halt = "returned"]
    /\ UNCHANGED <<srvVars, sessVars, devVars, lk, keys>>

AccNext ==
    \/ AccNew
    \/ \E r \in {"ok", "err"} : AccArrive(r)
    \/ AccTurn
    \/ \E res \in ConnReturned : AccConnectReturn(res)
    \/ AccHalt
    \/ AccJoin

AccSpec == Init /\ [][AccNext]_vars

\* ---- the message machine: one session loop whose client sends key events
\* (each with its key) and the other messages, with attach and stop().
\* Mutant: the key goes to the keyboard whether or not devices are attached.
KeyEventArm_Unguarded(kb, devices, key) == Append(kb, key)

\* handle_msg, the KeyEvent arm: the keyboard's events after it.
KeyEventArm(kb, devices, key) ==
    IF devices THEN Append(kb, key) ELSE kb

\* The keys a client can press.
KeyCodes == {1, 2}
\* What the decoder yields in this machine, a KeyEvent with its key: key
\* events, requests, one of the messages handle_msg only logs, and the end of
\* the stream.
MsgItems ==
    [kind : {"FramebufferUpdateRequest", "PointerEvent", "EOF"}, key : {0}]
        \cup [kind : {"KeyEvent"}, key : KeyCodes]

\* The client writes a message, closes the stream, or writes garbage.
MsgSend(m) ==
    /\ lpc \in {"select", "send"}
    /\ Len(inbox) < MaxInbox
    /\ \A i \in DOMAIN inbox : inbox[i].kind # "EOF"
    /\ m.kind = "FramebufferUpdateRequest" =>
          nReq + Cardinality({i \in DOMAIN inbox :
                                inbox[i].kind = "FramebufferUpdateRequest"}) < MaxReq
    /\ m.kind = "KeyEvent" =>
          Len(keys) + Cardinality({i \in DOMAIN inbox :
                                     inbox[i].kind = "KeyEvent"}) < MaxKeys
    /\ inbox' = Append(inbox, m)
    /\ UNCHANGED <<now, lpc, lres, close_recv, cstate, timer, display_ok, nReq,
                   nSent, lastSend, gap>>
    /\ UNCHANGED <<srvVars, devVars, lk, acc, keys>>

\* run(): the select is polled; the message arm hands the decoded message to
\* handle_msg, whose KeyEvent arm reaches the keyboard.
MsgPoll ==
    /\ lpc = "select"
    /\ \/ timer.st = "fresh"
       \/ close_recv
       \/ inbox # <<>>
       \/ (timer.st = "sleep" /\ now >= timer.at)
    /\ LET w   == WaitForNextFrame(cstate, timer, now, FrameAvailable)
           arm == SelectArm(close_recv, inbox # <<>>, w.ready)
           fresh == [st |-> "fresh", at |-> 0]
       IN
         CASE arm = "hangup" ->
                /\ lpc' = "returned"
                /\ lres' = "hangup"
                /\ UNCHANGED <<inbox, cstate, timer, nReq, lastSend, gap, keys>>
           [] arm = "msg" /\ Head(inbox).kind = "BadMsg" ->
                /\ lpc' = "returned"
                /\ lres' = "decode_err"
                /\ inbox' = Tail(inbox)
                /\ UNCHANGED <<cstate, timer, nReq, lastSend, gap, keys>>
           [] arm = "msg" /\ Head(inbox).kind = "EOF" ->
                /\ lpc' = "returned"
                /\ lres' = "disconnect"
                /\ inbox' = Tail(inbox)
                /\ UNCHANGED <<cstate, timer, nReq, lastSend, gap, keys>>
           [] arm = "msg" /\ Head(inbox).kind \in ClientMessages ->
                /\ cstate' = HandleMsg(cstate, Head(inbox).kind)
                /\ keys' = IF Head(inbox).kind = "KeyEvent"
                           THEN KeyEventArm(keys, state.devices, Head(inbox).key)
                           ELSE keys
                /\ nReq' = IF Head(inbox).kind = "FramebufferUpdateRequest"
                           THEN nReq + 1 ELSE nReq
                /\ inbox' = Tail(inbox)
                /\ timer' = fresh
                /\ UNCHANGED <<lpc, lres, lastSend, gap>>
           [] arm = "frame" ->
                /\ cstate' = w.cstate
                /\ lpc' = "send"
                /\ timer' = fresh
                /\ lastSend' = [kind |-> w.cstate.last_frame.kind, at |-> now]
                /\ gap' = IF lastSend.kind = "None" THEN gap
                          ELSE [after |-> lastSend.kind, len |-> now - lastSend.at]
                /\ UNCHANGED <<lres, inbox, nReq, keys>>
           [] arm = "none" ->
                /\ timer' = w.timer
                /\ UNCHANGED <<lpc, lres, inbox, cstate, nReq, lastSend, gap, keys>>
    /\ UNCHANGED <<now, close_recv, display_ok, nSent>>
    /\ UNCHANGED <<srvVars, devVars, lk, acc>>

MsgNext ==
    \/ Attach
    \/ StopCall
    \/ Tick
    \/ \E m \in MsgItems : MsgSend(m)
    \/ HupSend
    \/ MsgPoll
    \/ SendDone

MsgSpec == SessInit /\ [][MsgNext]_vars

\* ---- the update machine: one session with a request pending and nothing
\* cached; update_frame reads the display, and send_fbu sends what it cached.
\* What the guest left in the device, whether the accessor grants access and
\* whether the region is readable guest memory.
FbuArgs ==
    [width : 0 .. MaxDim, height : 0 .. MaxDim, stride : 0 .. U32_MAX,
     fourcc : {FOURCC_XR24, 0}, access : BOOLEAN, readable : BOOLEAN]

\* read_framebuffer with update_frame's validator (Some(32) if spec_valid):
\* what Frame::read_from returns, or no frame.
ReadFramebuffer(a) ==
    IF ~a.access THEN NoOut
    ELSE IF ~SpecValid(a) THEN NoOut
    ELSE FrameReadFrom([width |-> a.width, height |-> a.height,
                        stride |-> a.stride, bpp |-> 32,
                        readable |-> a.readable])

\* cstate.last_frame's Frame: what read_from returned for a Valid one (the
\* spec is the config's, with the stride read_from chose), the filler for a
\* Generated one.
CachedFrame ==
    IF cstate.last_frame.kind = "Valid"
    THEN [spec |-> [width |-> fin.width, height |-> fin.height,
                    stride |-> fout.stride, fourcc |-> fin.fourcc],
          len |-> fout.len,
          zero |-> FALSE,
          when |-> cstate.last_frame.when]
    ELSE BlankFrame(cstate.last_frame.when)

FbuInit ==
    /\ SrvInit
    /\ SessIdle
    /\ DevFresh
    /\ fin \in FbuArgs
    /\ fout = NoOut

\* The client's FramebufferUpdateRequest is decoded and handled.
FbuRequest ==
    /\ lpc = "none"
    /\ lpc' = "select"
    /\ cstate' = HandleMsg(cstate, "FramebufferUpdateRequest")
    /\ nReq' = nReq + 1
    /\ UNCHANGED <<now, lres, close_recv, inbox, timer, display_ok, nSent,
                   lastSend, gap>>
    /\ UNCHANGED <<srvVars, devVars, lkVars>>

\* wait_for_next_frame with nothing cached: update_frame runs at once and
\* its true return ends the wait; the select arm goes on to send_fbu.
FbuUpdateFrame ==
    /\ lpc = "select"
    /\ cstate.fbu_req
    /\ cstate.last_frame.kind = "None"
    /\ LET got == IF state.devices THEN ReadFramebuffer(fin) ELSE NoOut
           u == UpdateFrame(cstate, now, got.kind = "frame")
       IN /\ fout' = got
          /\ cstate' = u.cstate
          /\ lpc' = IF u.changed THEN "send" ELSE lpc
    /\ UNCHANGED <<now, lres, close_recv, inbox, timer, display_ok, nReq, nSent,
                   lastSend, gap>>
    /\ UNCHANGED <<config, last_update, dclock, notify_calls, dlock, fut, rfb,
                   rwres, nWrites, lastWrite, lastImport, mig, fin>>
    /\ UNCHANGED <<srvVars, lkVars>>

FbuNext ==
    \/ Attach
    \/ FbuRequest
    \/ FbuUpdateFrame
    \/ SendDone

FbuSpec == FbuInit /\ [][FbuNext]_vars

\* ================================================================= claims
\* C1: at most one session task exists at any instant. Whenever a connect()
\* has installed itself (and is about to spawn) or a session task is between
\* its spawn and the end of its hup_client(), that session owns the slot and
\* every other session is either not spawned yet or has cleared the slot.
C1_OneSession ==
    \A c \in Conns :
      (cpc[c] = "installed" \/ spc[c] \in Running) =>
        /\ client.id = c
        /\ \A d \in Conns \ {c} :
             spc[d] \notin Running /\ cpc[d] # "installed"

\* C1 witness: a second session runs after the first one is gone.
C1_Witness ==
    \E c, d \in Conns : c # d /\ spc[c] = "gone" /\ spc[d] = "select"

\* C2: once stop() has returned the slot is empty and stays so, and no
\* session is installed, spawned or running.
C2_NoAdmitAfterStop ==
    stpc = "returned" =>
      /\ client.id = NoClient
      /\ \A c \in Conns : spc[c] \notin Running /\ cpc[c] # "installed"

\* C3: the step in which stop() returns leaves the slot empty (no id, no
\* hangup sender) with no session task alive; the session that held the slot
\* when stop() was called has run its hup_client().
C3_StopDrains ==
    [][ (stpc # "returned" /\ stpc' = "returned") =>
          /\ client'.id = NoClient
          /\ client'.hup = NoClient
          /\ \A c \in Conns : spc'[c] \notin Running
          /\ (stopSaw # NoClient => spc'[stopSaw] = "gone") ]_vars

\* C3 witness: stop() was called with a session in the slot and has returned.
C3_Witness == stpc = "returned" /\ stopSaw # NoClient /\ spc[stopSaw] = "gone"

\* C4: every call of stop() eventually returns.
C4_StopTerminates == (stpc \in {"check", "wait", "parked"}) ~> (stpc = "returned")

\* C5: every connect() that reaches replace_client eventually installs itself
\* and returns, as long as stop() is not called.
C5_RaceNoDeadlock ==
    \A c \in Conns :
      (cpc[c] \in {"check", "wait", "parked"}) ~> (cpc[c] = "done" \/ stpc # "idle")

\* C6: eviction. A session's hangup is fired at most once, and exactly once
\* by the time a connect() has found it in the slot and goes to wait; a
\* session whose hangup was fired leaves its next select turn through the
\* hangup arm (Ok); and a connect() that has installed itself holds the slot
\* with every other session gone.
C6_Eviction ==
    /\ [](\A a \in Conns : hupSent[a] <= 1)
    /\ [](\A b \in Conns : cpc[b] = "installed" =>
            /\ client.id = b
            /\ \A a \in Conns \ {b} : spc[a] \in {"none", "gone"})
    /\ [][ /\ \A b \in Conns :
                (cpc[b] = "check" /\ cpc'[b] = "wait") =>
                  hupSent'[client.id] = 1
           /\ \A a \in Conns :
                (spc[a] = "select" /\ hupSent[a] > 0 /\ spc'[a] # "select") =>
                  spc'[a] = "hangup" ]_vars

\* C6 witness: B has installed itself after A was hung up and is gone.
C6_Witness ==
    \E a, b \in Conns :
      /\ a # b
      /\ cpc[b] = "installed"
      /\ spc[a] = "gone"
      /\ hupSent[a] = 1

\* C7: a connect() that starts with the stopped flag set ends in
\* ServerStopped in that same step, before any handshake, and changes nothing
\* of the server.
C7_StoppedConnectFails ==
    [][ \A c \in Conns :
          (cpc[c] = "idle" /\ state.is_stopped /\ cpc'[c] # "idle") =>
            /\ cpc'[c] = "ServerStopped"
            /\ UNCHANGED <<state, client, permit, waiters, spc, hupSent>> ]_vars

\* C7 witness: a connect() was refused with ServerStopped.
C7_Witness ==
    \E c \in Conns : cpc[c] = "ServerStopped" /\ state.is_stopped

\* C8: updates are sent on request only. The frame arm runs only with a
\* request pending (a write in progress always has one), a completed write
\* clears it, and the updates written, plus the request still pending, never
\* exceed the requests decoded.
C8_OnlyOnRequest ==
    /\ lpc = "send" => cstate.fbu_req
    /\ nSent + (IF cstate.fbu_req THEN 1 ELSE 0) <= nReq

\* C8 witness: a request was answered and none is pending.
C8_Witness == lpc = "select" /\ nSent >= 1 /\ ~cstate.fbu_req

\* C9 as stated: any two consecutive updates of a session are issued at least
\* one frame interval apart, whatever the kind of the earlier frame.
C9_MinInterval == gap.after # "None" => gap.len >= FRAME_US_10FPS

\* C9 as amended: two consecutive updates are issued at least one frame
\* interval apart when the earlier of the two carried a Valid frame.
C9_MinIntervalAfterValid == gap.after = "Valid" => gap.len >= FRAME_US_10FPS

\* C9 witness: an update was issued after one that carried a Valid frame.
C9_Witness == gap.after = "Valid" /\ lastSend.kind \in {"Valid", "Generated"}

\* C10: once the hangup has been fired, a session at its select does nothing
\* but return through the hangup arm: it decodes no message (the inbox can
\* only grow), touches no ClientState, arms no sleep and issues no update,
\* and when it leaves the select it returns Ok by hangup.
C10_HangupFirst ==
    [][ (lpc = "select" /\ close_recv) =>
          /\ lpc' \in {"select", "returned"}
          /\ lpc' = "returned" => lres' = "hangup"
          /\ lpc' = "select" => timer' = timer
          /\ Len(inbox') >= Len(inbox)
          /\ UNCHANGED <<cstate, nReq, nSent, lastSend, gap>> ]_vars

\* C10 witness: the session returned by hangup with a message undecoded and a
\* frame tick due (a request pending and no frame cached).
C10_Witness ==
    /\ lpc = "returned"
    /\ lres = "hangup"
    /\ inbox # <<>>
    /\ cstate.fbu_req
    /\ cstate.last_frame.kind = "None"

\* C11: updated_since(t) loses no wakeup. Whenever an accepted fw_cfg write
\* has made last_update > t, the future is not parked: if the write fell
\* between the future's check of last_update and its poll of the notification,
\* that poll reports the notification; and the future eventually resolves.
C11_NoLostWakeup ==
    /\ [](\A f \in Futs : fut[f].pc = "pending" => lastWrite <= fut[f].since)
    /\ \A f \in Futs :
         (fut[f].pc # "none" /\ lastWrite > fut[f].since) ~> (fut[f].pc = "ready")

\* C11 witness: a future has resolved on a write, its notification having
\* been taken and replaced on the way.
C11_Witness ==
    \E f \in Futs :
        /\ fut[f].pc = "ready"
        /\ fut[f].seen > 0
        /\ fut[f].seen = notify_calls
        /\ fut[f].since < lastWrite
        /\ lastImport = 0

\* C12: a future that is parked when import() runs, with t earlier than the
\* import, is woken by the import: it is never parked while the import's
\* last_update is later than its t.
C12_ImportWakes ==
    \A f \in Futs : fut[f].pc = "pending" => lastImport <= fut[f].since

C14_RejectedWrite ==
    [][(/\ rwres' # rwres
        /\ rwres'.op.kind = "write"
        /\ (rwres'.op.offset >= 28 \/ rwres'.op.offset + rwres'.op.len > 28))
       => /\ ~rwres'.ok
          /\ config' = config
          /\ last_update' = last_update
          /\ notify_calls' = notify_calls
          /\ fut' = fut]_vars

\* C14 witness: a write that starts inside the entry and ends outside it was
\* refused on a programmed device.
C14_Witness ==
    /\ ~rwres.ok
    /\ rwres.op.kind = "write"
    /\ rwres.op.offset < 28
    /\ rwres.op.offset + rwres.op.len > 28
    /\ config # DefaultConfig

\* C15: after a write of a field with the big-endian bytes of a value v, a
\* read that covers the field returns those bytes at the field's place, and
\* read_spec() reports v for width, height, stride and fourcc.
C15_RoundTrip ==
    \A i \in DOMAIN CFG_REGS : \A v \in FieldVals :
      LET id  == CFG_REGS[i].id
          len == CFG_REGS[i].len
          at  == RegStart(i)
          rd  == rwres.op
      IN (/\ rwres.prev = WriteOp(at, BeBytes(v, len))
          /\ rwres.ok
          /\ rd.kind = "read"
          /\ rd.offset <= at
          /\ at + len <= rd.offset + rd.len)
         => /\ SubSeq(rwres.bytes, at - rd.offset + 1, at - rd.offset + len)
                 = BeBytes(v, len)
            /\ id \in {"width", "height", "stride", "fourcc"}
                 => ReadSpec(config)[id] = v

\* C15 witness: width was written as 800 and read back with a 4-byte read.
C15_Witness ==
    /\ rwres.prev = WriteOp(16, BeBytes(800, 4))
    /\ rwres.op = ReadOp(16, 4)
    /\ rwres.bytes = <<0, 0, 3, 32>>
    /\ ReadSpec(config).width = 800

\* C16: an accepted write changes exactly the bytes it covers, in the
\* big-endian image of the entry (addr at 0, fourcc at 8, flags at 12, width at
\* 16, height at 20, stride at 24): bytes of a partly written field outside the
\* write, and all other fields, keep their values. A write across field
\* boundaries has the effect of the writes of its per-field pieces, made one
\* after another.
C16_PartialWrite ==
    [][nWrites' = nWrites + 1 =>
         LET op == rwres'.op
             Image(c) == SwapBytes(c.addr) \o SwapBytes(c.fourcc)
                         \o SwapBytes(c.flags) \o SwapBytes(c.width)
                         \o SwapBytes(c.height) \o SwapBytes(c.stride)
             Piece(c, lo, hi) ==
                 LET a == IF op.offset > lo THEN op.offset ELSE lo
                     b == IF op.offset + op.len < hi THEN op.offset + op.len ELSE hi
                 IN IF a < b
                    THEN ProcessWrite(c, 1, a,
                           SubSeq(op.data, a - op.offset + 1, b - op.offset))
                    ELSE c
         IN /\ Image(config') =
                 [p \in 1 .. 28 |->
                    IF op.offset < p /\ p <= op.offset + op.len
                    THEN op.data[p - op.offset] ELSE Image(config)[p]]
            /\ config' = Piece(Piece(Piece(Piece(Piece(Piece(config,
                           0, 8), 8, 12), 12, 16), 16, 20), 20, 24), 24, 28)]_vars

\* C16 witness: six bytes written at offset 11, over the last byte of fourcc,
\* all of flags and the first byte of width, on a device programmed otherwise.
C16_Witness ==
    /\ rwres.ok
    /\ rwres.prev = NoOp
    /\ rwres.op = WriteOp(11, Pattern(1, 11, 6))
    /\ config.flags = SwapBytes(Pattern(1, 12, 4))
    /\ config.fourcc = SwapBytes(<<57, 58, 59, 13>>)
    /\ config.width = SwapBytes(<<18, 66, 67, 68>>)
    /\ config.stride = SwapBytes(Pattern(48, 24, 4))

\* C17: import(export()) on a fresh device restores all six fields, so
\* read_spec() on the target equals read_spec() on the source.
C17_MigrationRoundTrip ==
    mig.pc = "imported" =>
        /\ config = mig.exported
        /\ ReadSpec(config) = ReadSpec(mig.exported)

\* C17 witness: a device with every field programmed was exported and
\* imported.
C17_Witness ==
    /\ mig.pc = "imported"
    /\ \A i \in DOMAIN CFG_REGS : config[CFG_REGS[i].id] # Zeros(CFG_REGS[i].len)
    /\ lastImport = last_update

\* C18: a read_framebuffer whose validator returned None has made no call on
\* the guest-memory accessor, neither access() nor readable_region(), and
\* returns no frame.
C18_NoAccessorOnNone ==
    rfb.validate = "none" => (rfb.calls = <<>> /\ fout = NoOut)

\* C19: read_framebuffer has released the device-state lock before the pixel
\* copy starts.
C19_LockReleasedBeforeCopy ==
    rfb.pc = "copy" => dlock # "rfb"

\* C20: for every valid config at 32 bits per pixel whose effective stride is
\* at least linesize = width * 4, Frame::read_from yields a frame whose data is
\* width * height * 4 bytes long and whose spec.stride is 0 when the stride
\* exceeds linesize and the config's stride otherwise.
C20_FrameLength ==
    LET linesize == fin.width * 4
        eff == IF fin.stride = 0 THEN linesize ELSE fin.stride
    IN (/\ fout # NoOut
        /\ fin.width >= 1 /\ fin.height >= 1 /\ fin.bpp = 32
        /\ eff >= linesize)
       => /\ fout.len = fin.width * fin.height * 4
          /\ fout.stride = (IF eff > linesize THEN 0 ELSE fin.stride)

\* C21: spec_valid accepts a FramebufferSpec exactly when 1 <= width <= 1920,
\* 1 <= height <= 1200 and fourcc is XR24; a width or height of 0 is invalid.
C21_ValidIff ==
    fout # NoOut =>
        (fout.kind = "valid" <=>
            (/\ 1 <= fin.width /\ fin.width <= 1920
             /\ 1 <= fin.height /\ fin.height <= 1200
             /\ fin.fourcc = FOURCC_XR24))

\* C30: Frame::read_from takes the contiguous path (one bulk copy) exactly when
\* the effective stride is at most linesize = width * bpp / 8 bytes, the
\* effective stride being the config's stride, or linesize when that is 0; for
\* every other config it copies row by row.
C30_PathChoice ==
    LET linesize == (fin.width * fin.bpp) \div 8
        eff == IF fin.stride = 0 THEN linesize ELSE fin.stride
    IN fout.kind = "frame" =>
           (fout.path = "contiguous" <=> eff <= linesize)

\* C23: with a device never written (all-zero config) or not attached, no
\* frame can be extracted, and the first poll of a session that finds its first
\* FramebufferUpdateRequest pending issues an update at once, without a sleep:
\* the cached frame becomes a Generated filler, and the update is one rectangle
\* of 1024x768 at (0,0) with 1024*768*4 zero bytes.
C23_FirstRequestFiller ==
    [][ (/\ lpc = "select" /\ cstate.fbu_req /\ lastSend.kind = "None"
         /\ ~close_recv /\ inbox = <<>>
         /\ ~state.devices \/ (config = DefaultConfig /\ ~display_ok)
         \* the step is a poll of the session: the environment stands still
         /\ now' = now /\ state' = state /\ display_ok' = display_ok
         /\ inbox' = inbox /\ close_recv' = close_recv)
        => /\ ~SpecValid(ReadSpec(DefaultConfig))
           /\ ~FrameAvailable
           /\ lpc' = "send"
           /\ cstate'.last_frame = [kind |-> "Generated", when |-> now]
           /\ lastSend' = [kind |-> "Generated", at |-> now]
           /\ FramebufferUpdateOf(BlankFrame(now)) =
                << [position |-> [x |-> 0, y |-> 0],
                    dimensions |-> [width |-> 1024, height |-> 768],
                    encoding |-> "Raw",
                    len |-> 3145728,
                    zero |-> TRUE] >> ]_vars

\* A session of a server without devices has sent its first update, a filler.
C23_Witness ==
    /\ ~state.devices /\ ~state.is_stopped
    /\ nSent = 1
    /\ lastSend.kind = "Generated"
    /\ gap.after = "None"
    /\ cstate.last_frame.kind = "Generated"

\* C24 as stated: while no frame can be extracted, every pending
\* FramebufferUpdateRequest of a live session, whatever frame is cached, is
\* eventually answered by the filler (or the device becomes readable, or the
\* session is hung up or ends). The request is taken early enough for a whole
\* pacing interval to fit before the clock's horizon, and the client does not
\* send for ever: the select prefers a decoded message to the frame.
C24_EveryRequestAnswered ==
    <>[](inbox = <<>>) =>
   ((/\ lpc = "select" /\ cstate.fbu_req
     /\ cstate.last_frame.kind = "Valid"
            => cstate.last_frame.when + FRAME_US_10FPS <= MaxTime
     /\ cstate.last_frame.kind = "Generated" => now + FRAME_US_10FPS <= MaxTime)
    ~> (\/ lpc = "send" /\ lastSend.kind = "Generated"
        \/ FrameAvailable
        \/ close_recv
        \/ lpc = "returned"))

\* C24, amended: the same for every request that finds no frame or a Valid
\* frame cached; a request that finds the filler cached is left pending.
C24_AnsweredUnlessFillerCached ==
    <>[](inbox = <<>>) =>
   ((/\ lpc = "select" /\ cstate.fbu_req
     /\ cstate.last_frame.kind # "Generated"
     /\ cstate.last_frame.kind = "Valid"
            => cstate.last_frame.when + FRAME_US_10FPS <= MaxTime)
    ~> (\/ lpc = "send" /\ lastSend.kind = "Generated"
        \/ FrameAvailable
        \/ close_recv
        \/ lpc = "returned"))

\* A later request, made with a Valid frame cached, is being answered by the
\* filler: the device has become unreadable since.
C24_Witness ==
    /\ lpc = "send" /\ cstate.fbu_req
    /\ nSent >= 1
    /\ gap.after = "Valid"
    /\ lastSend.kind = "Generated"
    /\ ~FrameAvailable /\ ~close_recv

\* C22 as stated: when the device advertises a fourcc the server cannot
\* render, connect() fails with InvalidFourCC carrying that code, with no
\* handshake, the client slot untouched and no session spawned. (lk.saw is what
\* the call in progress, or the last call, read from the device.)
C22_InvalidFourCC ==
    (/\ lk.saw.some
     /\ FourccToPixelFormat(lk.saw.spec.fourcc) = "None"
     /\ lk.pc["connect"] \notin {"idle", "c_state", "c_read_spec", "c_translate"})
    => /\ lk.pc["connect"] = "InvalidFourCC"
       /\ lk.adv.fourcc = lk.saw.spec.fourcc

\* C25: no task ever holds two of the mutexes DeviceState, ServerState and
\* ClientSlot at the same time.
C25_OneMutexAtATime ==
    \A t \in LockTasks : Cardinality(Held(t)) <= 1

\* C26: no mutex guard is held across a suspension point: a task that is
\* suspended in an await of connect, replace_client, wait_client_gone, stop, the
\* session loop or updated_since holds none of the three mutexes.
C26_NoGuardAcrossAwait ==
    \A t \in LockTasks : lk.pc[t] \in AwaitPcs => Held(t) = {}

\* connect() and stop() are both parked in wait_client_gone while the session
\* holds the client mutex in hup_client.
C26_Witness ==
    /\ lk.pc["connect"] = "c_parked"
    /\ lk.pc["stop"] = "st_parked"
    /\ lk.pc["session"] = "s_hup"
    /\ Held("session") = {"ClientSlot"}

\* C28: the accept loop goes round again after a connect() that returned,
\* whatever it returned, and after an accept error; its task ends only when the
\* hangup was fired; no connection is handed to connect() by a poll of the loop
\* made after the hangup was fired; and halt() returns only after the loop's
\* task has ended.
C28_AcceptorLoop ==
    [][ /\ (acc.pc = "connect" /\ acc'.pc # "connect") => acc'.pc = "select"
        /\ acc'.errors > acc.errors => (acc.pc = "select" /\ acc'.pc = "select")
        /\ (acc.pc # "returned" /\ acc'.pc = "returned") => acc.hup
        /\ acc'.handed > acc.handed => ~acc.hup
        /\ acc'.halt = "returned" => acc'.pc = "returned" ]_vars

\* halt() has returned from a loop that accepted a connection whose connect()
\* failed, and that saw an accept error.
C28_Witness ==
    /\ acc.halt = "returned"
    /\ acc.handed >= 1
    /\ acc.errors >= 1
    /\ acc.last \in ConnReturned \ {"Ok"}

\* C27: a session that dies of a decode error, a write error or the end of the
\* stream changes nothing but its own slot: when run() returns, and when the
\* task then runs hup_client, the device's config and last_update, the server's
\* stopped flag and devices, the accept loop and every other session are as
\* before; hup_client empties the slot, which is the session's own, and the
\* only task that moves is one its notification wakes.
C27_DeathChangesOwnSlotOnly ==
    [][ \A c \in Conns :
          LET Died == {"decode_err", "disconnect", "write_err"}
              RestAsBefore ==
                  /\ state' = state
                  /\ config' = config /\ last_update' = last_update
                  /\ acc' = acc
                  /\ \A d \in Conns \ {c} : spc'[d] = spc[d]
          IN /\ (spc[c] \in {"select", "send"} /\ spc'[c] \in Died)
                  => /\ RestAsBefore
                     /\ client' = client
                     /\ cpc' = cpc /\ stpc' = stpc
             /\ (spc[c] \in Died /\ spc'[c] = "gone")
                  => /\ RestAsBefore
                     /\ client.id = c
                     /\ client' = [hup |-> NoClient, id |-> NoClient]
                     /\ \A d \in Conns :
                          cpc'[d] # cpc[d]
                            => (cpc[d] = "parked" /\ cpc'[d] = "check")
                     /\ stpc' # stpc => (stpc = "parked" /\ stpc' = "check") ]_vars

\* A session that was never told to hang up is gone and the slot is empty,
\* on a server that has its devices and is not stopped, while another
\* connect() has not installed itself yet.
C27_Witness ==
    \E c \in Conns :
      /\ spc[c] = "gone" /\ hupSent[c] = 0
      /\ client = [hup |-> NoClient, id |-> NoClient]
      /\ state.devices /\ ~state.is_stopped
      /\ \E d \in Conns \ {c} : cpc[d] = "handshake"

\* C29: whatever ends a session's run(), the next step of its task is
\* hup_client, which nothing can hold up; it runs once, empties the slot (id and
\* sender) and calls notify_one (a parked task is woken or a permit stored);
\* and the slot's id is only ever cleared by the exit of the session that owns
\* the slot.
C29_ExitClearsOwnSlot ==
    /\ [](\A c \in Conns : spc[c] \in Returned => ENABLED HupClient(c))
    /\ [][ /\ \A c \in Conns :
                /\ (spc[c] \in Returned /\ spc'[c] # spc[c])
                     => /\ spc'[c] = "gone"
                        /\ client.id = c
                        /\ client' = [hup |-> NoClient, id |-> NoClient]
                        /\ IF waiters = <<>> THEN permit'
                           ELSE waiters' = Tail(waiters)
                /\ spc[c] = "gone" => spc'[c] = "gone"
           /\ (client.id # NoClient /\ client'.id # client.id)
                => (spc[client.id] \in Returned /\ spc'[client.id] = "gone") ]_vars

\* A session that was hung up by the next connect() has cleared the slot and
\* that connect() has installed itself: the slot is the second session's.
C29_Witness ==
    \E c \in Conns, d \in Conns :
      /\ c # d
      /\ spc[c] = "gone" /\ hupSent[c] > 0
      /\ client.id = d /\ spc[d] = "select"

\* C31: the extractor's size arithmetic never wraps: whenever Frame::read_from
\* yields a frame, linesize = width * bpp / 8 and region_len =
\* (height - 1) * effective_stride + linesize fit the machine word, so the
\* mapping's length was computed exactly.
C31_NoWrap ==
    LET linesize == (fin.width * fin.bpp) \div 8
        stride == IF fin.stride = 0 THEN linesize ELSE fin.stride
    IN fout.kind = "frame" =>
           /\ fin.width * fin.bpp <= USIZE_MAX
           /\ (fin.height - 1) * stride + linesize <= USIZE_MAX

\* C32: what connect() advertises in the handshake is the device's width,
\* height and fourcc when the device's spec is valid (1 <= width <= 1920,
\* 1 <= height <= 1200, XR24) and 1024x768 XR24 otherwise; the advertised
\* width is in 1..1920 and the advertised height in 1..1200, never 0.
C32_Advertised ==
    lk.pc["connect"] = "c_handshake" =>
        /\ lk.adv =
             (IF /\ lk.saw.some
                 /\ lk.saw.spec.width \in 1 .. 1920
                 /\ lk.saw.spec.height \in 1 .. 1200
                 /\ lk.saw.spec.fourcc = FOURCC_XR24
              THEN [res |-> [width |-> lk.saw.spec.width,
                             height |-> lk.saw.spec.height],
                    fourcc |-> lk.saw.spec.fourcc]
              ELSE [res |-> UNINIT_RES, fourcc |-> UNINIT_FOURCC])
        /\ lk.adv.res.width \in 1 .. 1920
        /\ lk.adv.res.height \in 1 .. 1200

\* C33: the FramebufferUpdate send_fbu builds is one Raw rectangle at (0,0)
\* whose payload is width * height * 4 bytes long for the rectangle's own
\* width and height, whatever config passed validation.
C33_OneFullRectangle ==
    lpc = "send" =>
        LET fbu == FramebufferUpdateOf(CachedFrame) IN
            /\ Len(fbu) = 1
            /\ fbu[1].position = [x |-> 0, y |-> 0]
            /\ fbu[1].encoding = "Raw"
            /\ fbu[1].len = fbu[1].dimensions.width * fbu[1].dimensions.height * 4

\* C34: within one read_framebuffer call the spec shown to the validator, the
\* config the mapping is computed from and the spec of the returned Frame are
\* one snapshot: from the validation to the end of the extraction no fwcfg_rw
\* write and no import changes the config.
C34_OneSnapshot ==
    /\ [](rfb.pc \in {"read", "copy"} => rfb.shown = ReadSpec(config))
    /\ []((rfb.validate = "some" /\ fin # NoArgs)
            => /\ fin.width = rfb.shown.width
               /\ fin.height = rfb.shown.height
               /\ fin.stride = rfb.shown.stride
               /\ fout.kind = "frame" => fout.stride \in {0, rfb.shown.stride})
    /\ [][rfb.pc \in {"read", "copy"}
            => (config' = config /\ last_update' = last_update)]_vars

\* A call validated a config the guest had written, extracted from it and
\* returned the frame, and the guest has changed the config since.
C34_Witness ==
    /\ rfb.pc = "returned"
    /\ fout.kind = "frame"
    /\ rfb.shown.width = 2
    /\ rfb.shown.stride = 12
    /\ ReadSpec(config) # rfb.shown

\* C35: with a Generated filler cached and no frame to extract, update_frame
\* returns false (the pacing wait does not end) and last_frame stays as it
\* is, kind and timestamp; a new filler is installed only over an empty cache
\* or a Valid frame, and only when the extraction fails.
C35_FillerReused ==
    [][ /\ (cstate.last_frame.kind = "Generated" /\ ~FrameAvailable)
            => /\ cstate'.last_frame = cstate.last_frame
               /\ lpc = "select" => lpc' # "send"
        /\ (cstate'.last_frame.kind = "Generated"
              /\ cstate'.last_frame # cstate.last_frame)
            => /\ cstate.last_frame.kind \in {"None", "Valid"}
               /\ ~FrameAvailable ]_vars

\* update_frame has returned false on a cached filler (the session sleeps an
\* interval with its request pending), time has passed since the filler was
\* made, and that filler has been sent before.
C35_Witness ==
    /\ lpc = "select"
    /\ cstate.last_frame.kind = "Generated"
    /\ cstate.fbu_req
    /\ timer.st = "sleep"
    /\ ~FrameAvailable
    /\ now > cstate.last_frame.when
    /\ lastSend.kind = "Generated"
    /\ nSent >= 1

C37_FrameCachedAtSend ==
    /\ [](lpc = "send" => cstate.last_frame.kind \in {"Valid", "Generated"})
    /\ [][(lpc = "select" /\ lpc' = "send")
            => /\ cstate'.last_frame.kind \in {"Valid", "Generated"}
               /\ cstate'.last_frame.when = now
               /\ cstate.fbu_req]_vars

\* The session is at send_fbu with a filler that update_frame has just put
\* in the place of a Valid frame, the frame of the update before.
C37_Witness ==
    /\ lpc = "send"
    /\ cstate.last_frame.kind = "Generated"
    /\ cstate.last_frame.when = now
    /\ lastSend = [kind |-> "Generated", at |-> now]
    /\ gap.after = "Valid"
    /\ now > 0

\* C38: an updated_since(t) future resolves only if last_update > t. It
\* resolves in the comparison at the top of poll's loop and nowhere else; as
\* long as last_update is not later than t, no poll, woken or spurious,
\* resolves it.
C38_ResolvesOnlyOnUpdate ==
    /\ [](\A f \in Futs : fut[f].pc = "ready" => last_update > fut[f].since)
    /\ [][\A f \in Futs :
            /\ (fut[f].pc # "ready" /\ fut'[f].pc = "ready")
                 => (fut[f].pc = "poll" /\ last_update > fut[f].since)
            /\ (fut[f].pc # "none" /\ last_update' <= fut[f].since)
                 => fut'[f].pc # "ready"]_vars

\* A future made after the guest's writes (its t is the latest update) was
\* polled, found nothing newer and is parked, no notification outstanding.
C38_Witness ==
    \E f \in Futs :
        /\ fut[f].pc = "pending"
        /\ fut[f].since >= last_update
        /\ last_update > 0
        /\ notify_calls > 0
        /\ fut[f].seen = notify_calls

\* C39: a fw_cfg read, read_spec, read_framebuffer (each of its steps) and
\* export leave the device as it is: the six config fields and last_update
\* keep their values, notify_waiters is not called and no waiter is woken.
C39_ReadersChangeNothing ==
    [][ (\/ rwres' # rwres /\ rwres'.op.kind = "read"
         \/ lk'.saw # lk.saw
         \/ rfb' # rfb
         \/ mig' # mig /\ mig'.pc = "exported")
        => /\ config' = config
           /\ last_update' = last_update
           /\ notify_calls' = notify_calls
           /\ fut' = fut ]_vars

\* On a device the guest has programmed, the guest has read the registers
\* back, read_spec has returned them, read_framebuffer has returned a frame
\* and the device was exported; last_update is still the write's.
C39_Witness ==
    /\ rwres.op.kind = "read" /\ rwres.ok
    /\ lk.saw.some /\ lk.saw.spec.width = 2
    /\ rfb.pc = "returned" /\ fout.kind = "frame"
    /\ mig.pc = "exported"
    /\ ReadSpec(config).width = 2
    /\ last_update = lastWrite /\ last_update > 0

\* C40: the register layout is packed over the 28 bytes of the fw_cfg entry:
\* addr, fourcc, flags, width, height, stride of 8, 4, 4, 4, 4, 4 bytes at
\* offsets 0, 8, 12, 16, 20, 24, every byte of the entry in exactly one
\* register and none past the entry; and the size of Config is
\* FWCFG_ENTRY_SIZE.
C40_PackedLayout ==
    fout.kind = "layout" =>
        /\ [i \in DOMAIN CFG_REGS |-> CFG_REGS[i].id]
             = <<"addr", "fourcc", "flags", "width", "height", "stride">>
        /\ [i \in DOMAIN CFG_REGS |-> CFG_REGS[i].len] = <<8, 4, 4, 4, 4, 4>>
        /\ [i \in DOMAIN CFG_REGS |-> RegStart(i)] = <<0, 8, 12, 16, 20, 24>>
        /\ fin.offset < FWCFG_ENTRY_SIZE => Cardinality(fout.regs) = 1
        /\ fin.offset >= FWCFG_ENTRY_SIZE => fout.regs = {}
        /\ fout.size = FWCFG_ENTRY_SIZE
====
